---------------------------- MODULE Spec2Model ----------------------------
(***************************************************************************)
(* A model of the form data model of gpui_demo:                            *)
(*   - models/file_form_model.rs : DbBackend, LogLevel, FileFormModel      *)
(*     (is_excel, is_csv, is_sqlite, validate_for_submit)                  *)
(*   - components/file_form.rs   : FileSelectionForm::new / to_model       *)
(*                                                                         *)
(* and of the biorhythm program of main.rs (DateInputDialog,               *)
(* BiorhythmChart, days_between_dates, calculate_biorhythm), and of        *)
(* logging.rs.                                                             *)
(*                                                                         *)
(* Specifications:                                                         *)
(*   SpecModel  applies the operations of FileFormModel to models drawn    *)
(*              from bounded sets of paths, sheets and other fields;       *)
(*   SpecLabels applies from_label, Display and to_model to labels and to  *)
(*              forms whose dropdowns hold any selection;                  *)
(*   SpecForm   is the file selection form as a state machine: edits,      *)
(*              file pickers, checkboxes, Load Sheets, Convert Files;      *)
(*   SpecDate   applies validate_date and days_between_dates to the texts  *)
(*              of the three date fields;                                  *)
(*   SpecDialog is the date dialog and the chart as a state machine;       *)
(*   SpecChart  draws the sample series of the chart;                      *)
(*   SpecLogging is logging.rs: the two initialisations and set_log_level. *)
(*                                                                         *)
(* Text is modelled as a sequence of one-character strings, so that        *)
(* trimming, lower-casing and the extraction of a path's extension are     *)
(* computed character by character, as the code computes them.  Paths are  *)
(* Unix paths ("/" is the only separator).                                 *)
(***************************************************************************)
EXTENDS Integers, Sequences, FiniteSets, TLC

VARIABLES
    model,      \* the FileFormModel the data-model operations are applied to
    form,       \* the FileSelectionForm state (inputs, dropdown values, flags)
    ret,        \* the last operation applied and what it returned
    dialog,     \* the DateInputDialog window of the biorhythm program
    chart,      \* the BiorhythmChart window of the biorhythm program
    tasks,      \* the file-picker tasks spawned and not yet finished
    presses,    \* how many key presses have changed a date field so far
    logging     \* the process-wide state of logging.rs

vars == <<model, form, ret, dialog, chart, tasks, presses, logging>>

(***************************************************************************)
(* Option<T> and Result<(), Vec<String>>                                   *)
(***************************************************************************)
None == [some |-> FALSE]

Some(v) == [some |-> TRUE, val |-> v]

Ok == [ok |-> TRUE]

Err(e) == [ok |-> FALSE, errors |-> e]

(***************************************************************************)
(* Characters                                                              *)
(***************************************************************************)
UpperChars == <<"A","B","C","D","E","F","G","H","I","J","K","L","M",
                "N","O","P","Q","R","S","T","U","V","W","X","Y","Z">>

LowerChars == <<"a","b","c","d","e","f","g","h","i","j","k","l","m",
                "n","o","p","q","r","s","t","u","v","w","x","y","z">>

\* char::to_ascii_lowercase: 'A'..'Z' map to 'a'..'z', everything else is kept.
CharToAsciiLowercase(c) ==
    IF \E i \in 1..Len(UpperChars) : UpperChars[i] = c
    THEN LowerChars[CHOOSE i \in 1..Len(UpperChars) : UpperChars[i] = c]
    ELSE c

\* str::to_ascii_lowercase
ToAsciiLowercase(s) == [i \in 1..Len(s) |-> CharToAsciiLowercase(s[i])]

\* char::is_whitespace, on the characters the model writes
IsWhitespace(c) == c \in {" ", "\t", "\n", "\r"}

RECURSIVE TrimStart(_)
\* str::trim_start
TrimStart(s) ==
    IF s # <<>> /\ IsWhitespace(Head(s)) THEN TrimStart(Tail(s)) ELSE s

RECURSIVE TrimEnd(_)
\* str::trim_end
TrimEnd(s) ==
    IF s # <<>> /\ IsWhitespace(s[Len(s)])
    THEN TrimEnd(SubSeq(s, 1, Len(s) - 1))
    ELSE s

\* the leading whitespace removed, the trailing whitespace left in place
TrimLeadingOnly(s) == TrimStart(s)

\* str::trim
Trim(s) == TrimEnd(TrimStart(s))

(***************************************************************************)
(* std::path::Path::extension, on Unix                                     *)
(***************************************************************************)
RECURSIVE SplitComponents(_, _, _)
\* The pieces of a path between its separators, in order (empty pieces,
\* which repeated, leading and trailing separators produce, included).
SplitComponents(s, cur, acc) ==
    IF s = <<>> THEN Append(acc, cur)
    ELSE IF Head(s) = "/" THEN SplitComponents(Tail(s), <<>>, Append(acc, cur))
    ELSE SplitComponents(Tail(s), Append(cur, Head(s)), acc)

\* a piece that Components keeps wherever it stands
IsKeptPiece(piece) == piece # <<>> /\ piece # <<".">>

\* Components::next on the pieces: empty pieces are dropped, and so is every
\* "." but one that starts a relative path.
NormalizePieces(raw) ==
    (IF Head(raw) = <<>> THEN <<>> ELSE <<Head(raw)>>)
        \o SelectSeq(Tail(raw), IsKeptPiece)

\* Path::components (the root, which is never a file name, left out)
Components(p) == NormalizePieces(SplitComponents(p, <<>>, <<>>))

\* Component::Normal(name) => Some(name), CurDir and ParentDir => None
NormalComponent(c) ==
    IF c = <<".">> \/ c = <<".", ".">> THEN None ELSE Some(c)

\* components().next_back()
LastComponent(comps) ==
    IF comps = <<>> THEN None ELSE NormalComponent(comps[Len(comps)])

\* Path::file_name: the last component when it is a normal one
FileName(p) == LastComponent(Components(p))

\* the index of the last "." of a file name, 0 when it has none
LastDot(name) ==
    IF \E i \in 1..Len(name) : name[i] = "."
    THEN CHOOSE i \in 1..Len(name) :
             name[i] = "." /\ \A j \in (i + 1)..Len(name) : name[j] # "."
    ELSE 0

\* rsplit_file_at_dot(name), before.and(after): None when there is no dot
\* or nothing stands before the last dot
AfterDot(name, d) ==
    IF d <= 1 THEN None ELSE Some(SubSeq(name, d + 1, Len(name)))

\* file_name().map(rsplit_file_at_dot).and_then(|(before, after)| before.and(after))
ExtensionOfFileName(f) ==
    IF f.some THEN AfterDot(f.val, LastDot(f.val)) ELSE None

\* Path::extension
Extension(p) == ExtensionOfFileName(FileName(p))

\* Path::as_os_str().is_empty()
PathIsEmpty(p) == p = <<>>

(***************************************************************************)
(* models/file_form_model.rs: DbBackend and LogLevel                       *)
(***************************************************************************)
DbBackend == {"Sqlite", "MySql", "Db2", "PostgreSql", "MariaDb", "MsSql",
              "Redis", "Aws", "Azure", "GoogleCloud", "Apache"}

\* #[default] Sqlite
DbBackendDefault == "Sqlite"

\* DbBackend::from_label, with a match arm dropped
DbBackendFromLabelMissingArm(label) ==
    CASE label = "SQLite" -> Some("Sqlite")
      [] label = "MySQL" -> Some("MySql")
      [] label = "DB2" -> Some("Db2")
      [] label = "Postgresql" -> Some("PostgreSql")
      [] label = "MariaDB" -> Some("MariaDb")
      [] label = "MSSQL" -> Some("MsSql")
      [] label = "Redis" -> Some("Redis")
      [] label = "AWS" -> Some("Aws")
      [] label = "Azure" -> Some("Azure")
      [] label = "Apache" -> Some("Apache")
      [] OTHER -> None

\* DbBackend::from_label, with two arms' results exchanged
DbBackendFromLabelSwapped(label) ==
    CASE label = "SQLite" -> Some("Sqlite")
      [] label = "MySQL" -> Some("MariaDb")
      [] label = "DB2" -> Some("Db2")
      [] label = "Postgresql" -> Some("PostgreSql")
      [] label = "MariaDB" -> Some("MySql")
      [] label = "MSSQL" -> Some("MsSql")
      [] label = "Redis" -> Some("Redis")
      [] label = "AWS" -> Some("Aws")
      [] label = "Azure" -> Some("Azure")
      [] label = "Google Cloud" -> Some("GoogleCloud")
      [] label = "Apache" -> Some("Apache")
      [] OTHER -> None

\* DbBackend::from_label
DbBackendFromLabel(label) ==
    CASE label = "SQLite" -> Some("Sqlite")
      [] label = "MySQL" -> Some("MySql")
      [] label = "DB2" -> Some("Db2")
      [] label = "Postgresql" -> Some("PostgreSql")
      [] label = "MariaDB" -> Some("MariaDb")
      [] label = "MSSQL" -> Some("MsSql")
      [] label = "Redis" -> Some("Redis")
      [] label = "AWS" -> Some("Aws")
      [] label = "Azure" -> Some("Azure")
      [] label = "Google Cloud" -> Some("GoogleCloud")
      [] label = "Apache" -> Some("Apache")
      [] OTHER -> None

\* impl fmt::Display for DbBackend
DbBackendDisplay(v) ==
    CASE v = "Sqlite" -> "SQLite"
      [] v = "MySql" -> "MySQL"
      [] v = "Db2" -> "DB2"
      [] v = "PostgreSql" -> "Postgresql"
      [] v = "MariaDb" -> "MariaDB"
      [] v = "MsSql" -> "MSSQL"
      [] v = "Redis" -> "Redis"
      [] v = "Aws" -> "AWS"
      [] v = "Azure" -> "Azure"
      [] v = "GoogleCloud" -> "Google Cloud"
      [] v = "Apache" -> "Apache"

LogLevel == {"Error", "Warn", "Info", "Debug", "Trace"}

\* #[default] Info
LogLevelDefault == "Info"

\* LogLevel::from_label
LogLevelFromLabel(label) ==
    CASE label = "ERROR" -> Some("Error")
      [] label = "WARN" -> Some("Warn")
      [] label = "INFO" -> Some("Info")
      [] label = "DEBUG" -> Some("Debug")
      [] label = "TRACE" -> Some("Trace")
      [] OTHER -> None

\* impl fmt::Display for LogLevel
LogLevelDisplay(v) ==
    CASE v = "Error" -> "ERROR"
      [] v = "Warn" -> "WARN"
      [] v = "Info" -> "INFO"
      [] v = "Debug" -> "DEBUG"
      [] v = "Trace" -> "TRACE"

(***************************************************************************)
(* models/file_form_model.rs: FileFormModel                                *)
(***************************************************************************)
\* .map(|ext| ext.to_ascii_lowercase())
MapToAsciiLowercase(e) ==
    IF e.some THEN Some(ToAsciiLowercase(e.val)) ELSE None

\* the extension compared as written, the lower-casing left out
LoweredExtensionCaseSensitive(p) == Extension(p)

\* path.extension().and_then(|ext| ext.to_str()).map(|ext| ext.to_ascii_lowercase())
LoweredExtension(p) == MapToAsciiLowercase(Extension(p))

\* matches!(ext.as_deref(), Some(a | b | ..))
Matches(e, patterns) == e.some /\ e.val \in patterns

\* Some("xlsx" | "xlsm" | "xlsb" | "xls")
ExcelExtensions == { <<"x","l","s","x">>, <<"x","l","s","m">>,
                     <<"x","l","s","b">>, <<"x","l","s">> }

\* Some("csv")
CsvExtensions == { <<"c","s","v">> }

\* Some("db" | "db3" | "sqlite")
SqliteExtensions == { <<"d","b">>, <<"d","b","3">>,
                      <<"s","q","l","i","t","e">> }

\* FileFormModel::is_excel, with the "xls" pattern left out
IsExcelWithoutXls(m) ==
    Matches(LoweredExtension(m.source_file),
            ExcelExtensions \ { <<"x","l","s">> })

\* FileFormModel::is_excel
IsExcel(m) == Matches(LoweredExtension(m.source_file), ExcelExtensions)

\* FileFormModel::is_csv
IsCsv(m) == Matches(LoweredExtension(m.source_file), CsvExtensions)

\* FileFormModel::is_sqlite, accepting "sqlite3" as well
IsSqliteWithSqlite3(m) ==
    Matches(LoweredExtension(m.database_file),
            SqliteExtensions \cup { <<"s","q","l","i","t","e","3">> })

\* FileFormModel::is_sqlite
IsSqlite(m) == Matches(LoweredExtension(m.database_file), SqliteExtensions)

SourceRequired == "Source file is required."

DatabaseRequired == "Database file is required."

SheetRequired == "Sheet selection is required for Excel sources."

\* .map(str::trim)
MapTrim(sheet) == IF sheet.some THEN Some(Trim(sheet.val)) ELSE None

\* .filter(|sheet| !sheet.is_empty())
FilterNonEmpty(sheet) == IF sheet.some /\ sheet.val # <<>> THEN sheet ELSE None

\* the sheet check without the trim: only None and "" count as missing
SheetMissingUntrimmed(m) == ~FilterNonEmpty(m.selected_sheet).some

\* selected_sheet.as_deref().map(str::trim).filter(|s| !s.is_empty()).is_none()
SheetMissing(m) == ~FilterNonEmpty(MapTrim(m.selected_sheet)).some

\* if self.source_file.as_os_str().is_empty() { errors.push(..) }
PushSourceRequired(m, errors) ==
    IF PathIsEmpty(m.source_file) THEN Append(errors, SourceRequired) ELSE errors

\* if self.database_file.as_os_str().is_empty() { errors.push(..) }
PushDatabaseRequired(m, errors) ==
    IF PathIsEmpty(m.database_file)
    THEN Append(errors, DatabaseRequired) ELSE errors

\* the sheet rule applied to every source, Excel or not
PushSheetRequiredAlways(m, errors) ==
    IF SheetMissing(m) THEN Append(errors, SheetRequired) ELSE errors

\* if self.is_excel() && <sheet missing> { errors.push(..) }
PushSheetRequired(m, errors) ==
    IF IsExcel(m) /\ SheetMissing(m)
    THEN Append(errors, SheetRequired) ELSE errors

\* if errors.is_empty() { Ok(()) } else { Err(errors) }
Finish(errors) == IF errors = <<>> THEN Ok ELSE Err(errors)

\* validate_for_submit returning at the first violated rule
ValidateForSubmitShortCircuit(m) ==
    IF PathIsEmpty(m.source_file) THEN Err(<<SourceRequired>>)
    ELSE IF PathIsEmpty(m.database_file) THEN Err(<<DatabaseRequired>>)
    ELSE Finish(PushSheetRequired(m, <<>>))

\* validate_for_submit demanding a log directory as well
ValidateForSubmitLogRequired(m) ==
    Finish((IF PathIsEmpty(m.log_directory)
            THEN <<"Log directory is required.">> ELSE <<>>)
           \o PushSheetRequired(m,
                  PushDatabaseRequired(m, PushSourceRequired(m, <<>>))))

\* FileFormModel::validate_for_submit
ValidateForSubmit(m) ==
    Finish(PushSheetRequired(m,
               PushDatabaseRequired(m, PushSourceRequired(m, <<>>))))

\* a default model whose has_headers is true, as the form's checkbox starts
DefaultModelHeadersOn ==
    [source_file |-> <<>>, database_file |-> <<>>, log_directory |-> <<>>,
     db_backend |-> DbBackendDefault, log_level |-> LogLevelDefault,
     selected_sheet |-> None, log_stdout |-> FALSE, has_headers |-> TRUE]

\* #[derive(Default)] for FileFormModel
DefaultModel ==
    [source_file |-> <<>>, database_file |-> <<>>, log_directory |-> <<>>,
     db_backend |-> DbBackendDefault, log_level |-> LogLevelDefault,
     selected_sheet |-> None, log_stdout |-> FALSE, has_headers |-> FALSE]

(***************************************************************************)
(* components/file_form.rs: FileSelectionForm                              *)
(***************************************************************************)
\* db_options of FileSelectionForm::new
DbOptions == <<"SQLite", "MySQL", "DB2", "Postgresql", "MariaDB", "MSSQL",
               "Redis", "AWS", "Azure", "Google Cloud", "Apache">>

\* log_levels of FileSelectionForm::new
LogLevelOptions == <<"ERROR", "WARN", "INFO", "DEBUG", "TRACE">>

\* items.iter().position(|s| s == label).map(|i| IndexPath::default().row(i))
PositionOf(items, label) ==
    IF \E i \in 1..Len(items) : items[i] = label
    THEN Some(CHOOSE i \in 1..Len(items) :
                  items[i] = label /\ \A j \in 1..(i - 1) : items[j] # label)
    ELSE None

\* SelectState::new(items, selected_index, ..)
SelectState(items, selected_index) ==
    [items |-> items, selected_index |-> selected_index]

\* SelectState::selected_value: the item at the selected index, if any
SelectedValue(select) ==
    IF select.selected_index.some
       /\ select.selected_index.val \in 1..Len(select.items)
    THEN Some(select.items[select.selected_index.val])
    ELSE None

\* a form constructed with the has-headers checkbox off
NewFormHeadersOff ==
    [source_file |-> <<>>, database_file |-> <<>>, log_directory |-> <<>>,
     db_backend_select |-> SelectState(DbOptions, PositionOf(DbOptions, "SQLite")),
     log_level_select |->
         SelectState(LogLevelOptions, PositionOf(LogLevelOptions, "INFO")),
     sheets_select |-> SelectState(<<>>, None),
     log_stdout |-> FALSE, has_headers |-> FALSE]

\* FileSelectionForm::new
NewForm ==
    [source_file |-> <<>>, database_file |-> <<>>, log_directory |-> <<>>,
     db_backend_select |-> SelectState(DbOptions, PositionOf(DbOptions, "SQLite")),
     log_level_select |->
         SelectState(LogLevelOptions, PositionOf(LogLevelOptions, "INFO")),
     sheets_select |-> SelectState(<<>>, None),
     log_stdout |-> FALSE, has_headers |-> TRUE]

\* Option::and_then(DbBackend::from_label)
AndThenDbBackendFromLabel(selected) ==
    IF selected.some THEN DbBackendFromLabel(selected.val) ELSE None

\* Option::and_then(LogLevel::from_label)
AndThenLogLevelFromLabel(selected) ==
    IF selected.some THEN LogLevelFromLabel(selected.val) ELSE None

\* Option::unwrap_or_default, the default passed along
UnwrapOr(parsed, default) == IF parsed.some THEN parsed.val ELSE default

\* db.and_then(|value| DbBackend::from_label(value)).unwrap_or_default()
DbBackendOf(selected) ==
    UnwrapOr(AndThenDbBackendFromLabel(selected), DbBackendDefault)

\* the log level falling back to the first variant instead of #[default]
LogLevelOfFirstVariant(selected) ==
    UnwrapOr(AndThenLogLevelFromLabel(selected), "Error")

\* level.and_then(|value| LogLevel::from_label(value)).unwrap_or_default()
LogLevelOf(selected) ==
    UnwrapOr(AndThenLogLevelFromLabel(selected), LogLevelDefault)

\* FileSelectionForm::to_model
ToModel(f) ==
    [source_file |-> Trim(f.source_file),
     database_file |-> Trim(f.database_file),
     log_directory |-> Trim(f.log_directory),
     db_backend |-> DbBackendOf(SelectedValue(f.db_backend_select)),
     log_level |-> LogLevelOf(SelectedValue(f.log_level_select)),
     selected_sheet |-> SelectedValue(f.sheets_select),
     log_stdout |-> f.log_stdout,
     has_headers |-> f.has_headers]

(***************************************************************************)
(* Bounds and the inputs drawn within them                                 *)
(***************************************************************************)
\* the most pieces (names, dots, separators) a generated path is built of
MaxTokens == 3

\* the most characters of a generated sheet name
MaxSheetLen == 2

RECURSIVE Flatten(_)
\* the text a sequence of pieces spells
Flatten(ts) == IF ts = <<>> THEN <<>> ELSE Head(ts) \o Flatten(Tail(ts))

TokenPaths(tokens) ==
    { Flatten(ts) : ts \in UNION { [1..n -> tokens] : n \in 0..MaxTokens } }

\* names, dots and separators the generated source paths are built of
SourceTokens ==
    { <<".">>, <<"/">>, <<"a">>, <<" ">>,
      <<"x","l","s">>, <<"X","l","S","x">>, <<"c","s","v">> }

\* names, dots and separators the generated database paths are built of
DatabaseTokens ==
    { <<".">>, <<"/">>, <<"m">>, <<"d","b">>,
      <<"S","q","L","i","t","e">>, <<"s","q","l","i","t","e","3">> }

SourcePaths == TokenPaths(SourceTokens)

DatabasePaths == TokenPaths(DatabaseTokens)

InputXlsx == <<"i","n","p","u","t",".","x","l","s","x">>

InputCsv == <<"i","n","p","u","t",".","c","s","v">>

AppDb == <<"a","p","p",".","d","b">>

\* the sources the validation rules are tried on
FewSources ==
    { <<>>, <<" ">>, InputXlsx, InputCsv,
      <<"I","N",".","X","L","S">>, <<"i","n",".","x","l","s","m">>,
      <<"i","n",".","X","l","s","B">>, <<"i","n",".","C","s","V">>,
      <<"i","n",".","t","s","v">>, <<"i","n",".","x","l","s","x","x">>,
      <<"i","n">>, <<".","x","l","s","x">>,
      <<"d",".","x","l","s","/","i","n">>, <<"i","n",".","x","l","s","/">> }

\* the databases the validation rules are tried on
FewDatabases ==
    { <<>>, AppDb, <<" ">>, <<"m",".","D","B">>, <<"m",".","d","b","3">>,
      <<"m",".","s","q","l","i","t","e">>, <<"m",".","d","b","x">> }

SheetChars == {" ", "\t", "S"}

Sheet1 == <<"S","h","e","e","t","1">>

SheetNames ==
    {Sheet1} \cup UNION { [1..n -> SheetChars] : n \in 0..MaxSheetLen }

Sheets == {None} \cup { Some(n) : n \in SheetNames }

LogDirs == { <<>>, <<"l","o","g","s">> }

\* FileFormModel { source_file, database_file, selected_sheet, .. rest }
ModelWith(src, db, sheet, rest) ==
    [rest EXCEPT !.source_file = src, !.database_file = db,
                 !.selected_sheet = sheet]

\* values of the fields validate_for_submit is said not to read
FewRests ==
    { DefaultModel,
      [DefaultModel EXCEPT !.log_stdout = TRUE, !.has_headers = TRUE,
                           !.db_backend = "Apache", !.log_level = "Error"],
      [DefaultModel EXCEPT !.log_directory = <<"l","o","g","s">>] }

\* the models the data-model operations are applied to
Models ==
    { ModelWith(s, AppDb, None, DefaultModel) : s \in SourcePaths }
    \cup { ModelWith(InputCsv, d, None, DefaultModel) : d \in DatabasePaths }
    \cup { ModelWith(s, d, sh, r) :
             s \in FewSources, d \in {<<>>, AppDb}, sh \in Sheets, r \in FewRests }
    \cup { ModelWith(s, d, None, DefaultModel) :
             s \in {<<>>, InputXlsx}, d \in FewDatabases }

NoCall == [op |-> "none"]

\* the form program opens neither window of the biorhythm program
NoDialog == [open |-> FALSE]

NoChart == [open |-> FALSE]

\* logging.rs before any call: no global default subscriber, an empty
\* SET_LOG_LEVEL
NoLogging ==
    [dispatch |-> None, filter |-> None, SET_LOG_LEVEL |-> None,
     storing |-> FALSE, calls |-> 0]

(***************************************************************************)
(* The data model: operations applied to a FileFormModel                   *)
(***************************************************************************)
InitModel ==
    /\ model \in Models
    /\ form = NewForm
    /\ ret = NoCall
    /\ dialog = NoDialog
    /\ chart = NoChart
    /\ tasks = <<>>
    /\ presses = 0
    /\ logging = NoLogging

CallValidateForSubmit ==
    /\ ret' = [op |-> "validate_for_submit", val |-> ValidateForSubmit(model)]
    /\ UNCHANGED <<logging, model, form, dialog, chart, tasks, presses>>

CallIsExcel ==
    /\ ret' = [op |-> "is_excel", val |-> IsExcel(model)]
    /\ UNCHANGED <<logging, model, form, dialog, chart, tasks, presses>>

CallIsCsv ==
    /\ ret' = [op |-> "is_csv", val |-> IsCsv(model)]
    /\ UNCHANGED <<logging, model, form, dialog, chart, tasks, presses>>

CallIsSqlite ==
    /\ ret' = [op |-> "is_sqlite", val |-> IsSqlite(model)]
    /\ UNCHANGED <<logging, model, form, dialog, chart, tasks, presses>>

NextModel ==
    \/ CallValidateForSubmit
    \/ CallIsExcel
    \/ CallIsCsv
    \/ CallIsSqlite

SpecModel == InitModel /\ [][NextModel]_vars

(***************************************************************************)
(* The labels: from_label, Display and to_model's use of the dropdowns     *)
(***************************************************************************)
\* strings that are no label of either enum: labels in another case, the
\* variant names, the names as the data-model section of the spec writes them
ForeignLabels ==
    <<"PostgreSQL", "GoogleCloud", "sqlite", "Info", "not-a-label", "">>

\* the strings from_label is applied to
LabelInputs ==
    { DbOptions[i] : i \in 1..Len(DbOptions) }
    \cup { LogLevelOptions[i] : i \in 1..Len(LogLevelOptions) }
    \cup { ForeignLabels[i] : i \in 1..Len(ForeignLabels) }

\* a dropdown over items with nothing or any one item selected
SelectStatesOver(items) ==
    { SelectState(items, None) }
    \cup { SelectState(items, Some(i)) : i \in 1..Len(items) }

\* the forms to_model is applied to: the form as constructed, its two
\* dropdowns holding their own options or strings that are no label
InitLabels ==
    /\ model = DefaultModel
    /\ \E db \in SelectStatesOver(DbOptions) \cup SelectStatesOver(ForeignLabels),
          level \in {SelectState(LogLevelOptions, PositionOf(LogLevelOptions, "INFO")),
                     SelectState(LogLevelOptions, None),
                     SelectState(ForeignLabels, Some(4))} :
          form = [NewForm EXCEPT !.db_backend_select = db,
                                 !.log_level_select = level]
    /\ ret = NoCall
    /\ dialog = NoDialog
    /\ chart = NoChart
    /\ tasks = <<>>
    /\ presses = 0
    /\ logging = NoLogging

CallDbBackendFromLabel(label) ==
    /\ ret' = [op |-> "DbBackend::from_label", arg |-> label,
               val |-> DbBackendFromLabel(label)]
    /\ UNCHANGED <<logging, model, form, dialog, chart, tasks, presses>>

CallLogLevelFromLabel(label) ==
    /\ ret' = [op |-> "LogLevel::from_label", arg |-> label,
               val |-> LogLevelFromLabel(label)]
    /\ UNCHANGED <<logging, model, form, dialog, chart, tasks, presses>>

\* DbBackend::from_label(&v.to_string())
CallDbBackendRoundTrip(v) ==
    /\ ret' = [op |-> "DbBackend::round_trip", arg |-> v,
               val |-> DbBackendFromLabel(DbBackendDisplay(v))]
    /\ UNCHANGED <<logging, model, form, dialog, chart, tasks, presses>>

\* LogLevel::from_label(&l.to_string())
CallLogLevelRoundTrip(l) ==
    /\ ret' = [op |-> "LogLevel::round_trip", arg |-> l,
               val |-> LogLevelFromLabel(LogLevelDisplay(l))]
    /\ UNCHANGED <<logging, model, form, dialog, chart, tasks, presses>>

\* the user picks the i-th option of the DB-backend dropdown
SelectDbBackend(i) ==
    /\ form' = [form EXCEPT !.db_backend_select.selected_index = Some(i)]
    /\ UNCHANGED <<logging, model, ret, dialog, chart, tasks, presses>>

\* the user picks the i-th option of the log-level dropdown
SelectLogLevel(i) ==
    /\ form' = [form EXCEPT !.log_level_select.selected_index = Some(i)]
    /\ UNCHANGED <<logging, model, ret, dialog, chart, tasks, presses>>

\* form.to_model(cx)
CallToModel ==
    /\ ret' = [op |-> "to_model", arg |-> form, val |-> ToModel(form)]
    /\ UNCHANGED <<logging, model, form, dialog, chart, tasks, presses>>

NextLabels ==
    \/ \E label \in LabelInputs : CallDbBackendFromLabel(label)
    \/ \E label \in LabelInputs : CallLogLevelFromLabel(label)
    \/ \E v \in DbBackend : CallDbBackendRoundTrip(v)
    \/ \E l \in LogLevel : CallLogLevelRoundTrip(l)
    \/ \E i \in 1..Len(form.db_backend_select.items) : SelectDbBackend(i)
    \/ \E i \in 1..Len(form.log_level_select.items) : SelectLogLevel(i)
    \/ CallToModel

SpecLabels == InitLabels /\ [][NextLabels]_vars

(***************************************************************************)
(* Properties of the data model, checked under SpecModel                   *)
(***************************************************************************)
\* two texts equal up to the case of their ASCII letters
EqualsIgnoringAsciiCase(a, b) ==
    /\ Len(a) = Len(b)
    /\ \A i \in 1..Len(a) : CharToAsciiLowercase(a[i]) = CharToAsciiLowercase(b[i])

\* the path has an extension and it is, case-insensitively, one of exts
HasExtensionAmong(p, exts) ==
    /\ Extension(p).some
    /\ \E e \in exts : EqualsIgnoringAsciiCase(Extension(p).val, e)

StatedExcelExtensions == { <<"x","l","s","x">>, <<"x","l","s","m">>,
                           <<"x","l","s","b">>, <<"x","l","s">> }

StatedCsvExtensions == { <<"c","s","v">> }

StatedSqliteExtensions == { <<"d","b">>, <<"d","b","3">>,
                            <<"s","q","l","i","t","e">> }

\* a sheet selection that is absent, empty or made of whitespace only
SheetBlank(sheet) ==
    ~sheet.some \/ \A i \in 1..Len(sheet.val) : IsWhitespace(sheet.val[i])

RuleAViolated(m) == m.source_file = <<>>

RuleBViolated(m) == m.database_file = <<>>

RuleCViolated(m) ==
    /\ HasExtensionAmong(m.source_file, StatedExcelExtensions)
    /\ SheetBlank(m.selected_sheet)

\* the messages of the violated rules, each once, in the order A, B, C
ViolatedMessages(m) ==
    (IF RuleAViolated(m) THEN <<SourceRequired>> ELSE <<>>)
    \o (IF RuleBViolated(m) THEN <<DatabaseRequired>> ELSE <<>>)
    \o (IF RuleCViolated(m) THEN <<SheetRequired>> ELSE <<>>)

Validated == ret.op = "validate_for_submit"

\* the messages of a validation result (none for Ok)
ErrorsOf(r) == IF r.ok THEN <<>> ELSE r.errors

Reported(r, msg) == \E i \in 1..Len(ErrorsOf(r)) : ErrorsOf(r)[i] = msg

\* C1: validate_for_submit returns exactly the messages of the violated
\* rules, each once, in the order source, database, sheet, without stopping
\* at the first; it returns Ok exactly when no rule is violated, and an Err
\* list is never empty.
C1_AccumulatesAllInOrder ==
    Validated =>
        /\ ErrorsOf(ret.val) = ViolatedMessages(model)
        /\ ret.val.ok <=> ViolatedMessages(model) = <<>>
        /\ ~ret.val.ok => ret.val.errors # <<>>

\* two rules violated at once, both reported, the database message first
C1_Witness ==
    /\ Validated
    /\ ret.val = Err(<<DatabaseRequired, SheetRequired>>)

\* C2: an Excel source with a database and no sheet gives exactly the sheet
\* message; with a non-blank sheet it gives Ok.
C2_ExcelRequiresSheet ==
    (/\ Validated
     /\ HasExtensionAmong(model.source_file, StatedExcelExtensions)
     /\ model.database_file # <<>>) =>
        /\ ~model.selected_sheet.some => ret.val = Err(<<SheetRequired>>)
        /\ ~SheetBlank(model.selected_sheet) => ret.val = Ok

C2_Witness ==
    /\ Validated
    /\ model.source_file = InputXlsx
    /\ model.database_file = AppDb
    /\ model.selected_sheet = None
    /\ ret.val = Err(<<SheetRequired>>)

\* C3: the sheet message is never returned for a source that is empty or
\* not Excel, whatever the sheet; the source and sheet messages never come
\* together and at most two messages are returned; a CSV source with a
\* database and no sheet is Ok; empty source and database give the two
\* required-file messages.
C3_SheetRuleOnlyForExcel ==
    Validated =>
        /\ ~HasExtensionAmong(model.source_file, StatedExcelExtensions)
               => ~Reported(ret.val, SheetRequired)
        /\ ~(Reported(ret.val, SourceRequired) /\ Reported(ret.val, SheetRequired))
        /\ Len(ErrorsOf(ret.val)) <= 2
        /\ (/\ HasExtensionAmong(model.source_file, StatedCsvExtensions)
            /\ model.database_file # <<>>) => ret.val = Ok
        /\ (model.source_file = <<>> /\ model.database_file = <<>>)
               => ret.val = Err(<<SourceRequired, DatabaseRequired>>)

C3_Witness ==
    /\ Validated
    /\ model.source_file = InputCsv
    /\ model.database_file = AppDb
    /\ model.selected_sheet = None
    /\ ret.val = Ok

\* C4: for an Excel source, a sheet that is Some but empty or whitespace
\* only is treated exactly like None: the sheet message is reported and the
\* result is the one the same model gets without a sheet.
C4_BlankSheetIsMissing ==
    (/\ Validated
     /\ HasExtensionAmong(model.source_file, StatedExcelExtensions)
     /\ model.selected_sheet.some
     /\ SheetBlank(model.selected_sheet)) =>
        /\ Reported(ret.val, SheetRequired)
        /\ ret.val = ValidateForSubmit([model EXCEPT !.selected_sheet = None])

C4_Witness ==
    /\ Validated
    /\ model.source_file = InputXlsx
    /\ model.selected_sheet = Some(<<" ", "\t">>)
    /\ Reported(ret.val, SheetRequired)

\* C5: is_excel is true exactly when the source path's extension is,
\* case-insensitively, one of xlsx, xlsm, xlsb, xls, and is_csv exactly when
\* it is csv; with any other extension, none, or an empty path both are
\* false, and they are never both true.
C5_ClassifySource ==
    /\ ret.op = "is_excel" =>
           ret.val = HasExtensionAmong(model.source_file, StatedExcelExtensions)
    /\ ret.op = "is_csv" =>
           ret.val = HasExtensionAmong(model.source_file, StatedCsvExtensions)
    /\ ~(IsExcel(model) /\ IsCsv(model))
    /\ ~Extension(model.source_file).some => ~IsExcel(model) /\ ~IsCsv(model)

C5_Witness ==
    /\ ret.op = "is_excel"
    /\ model.source_file = <<"a", ".", "X", "l", "S", "x">>
    /\ ret.val = TRUE

\* C6: is_sqlite is true exactly when the database path's extension is,
\* case-insensitively, one of db, db3, sqlite; sqlite3 is not SQLite.
C6_ClassifyDatabase ==
    ret.op = "is_sqlite" =>
        /\ ret.val = HasExtensionAmong(model.database_file, StatedSqliteExtensions)
        /\ HasExtensionAmong(model.database_file, { <<"s","q","l","i","t","e","3">> })
               => ret.val = FALSE

C6_Witness ==
    /\ ret.op = "is_sqlite"
    /\ model.database_file = <<"m", ".", "s","q","l","i","t","e","3">>
    /\ ret.val = FALSE

\* every value of the fields other than source, database and sheet
AllRests ==
    [source_file : {<<>>}, database_file : {<<>>}, log_directory : LogDirs,
     db_backend : DbBackend, log_level : LogLevel, selected_sheet : {None},
     log_stdout : BOOLEAN, has_headers : BOOLEAN]

\* C7: the result of validate_for_submit depends only on source_file,
\* database_file and selected_sheet: every model that agrees with this one
\* on the three gets the same result, whatever its log_directory,
\* db_backend, log_level, log_stdout and has_headers are.
C7_OnlyThreeFieldsMatter ==
    Validated =>
        \A r \in AllRests :
            ValidateForSubmit(ModelWith(model.source_file, model.database_file,
                                        model.selected_sheet, r)) = ret.val

C7_Witness ==
    /\ Validated
    /\ model.log_directory = <<>>
    /\ model.log_stdout = TRUE
    /\ model.source_file = InputCsv
    /\ ret.val = Ok

(***************************************************************************)
(* Properties of the labels, checked under SpecLabels                      *)
(***************************************************************************)
\* the label table as the data-model section of the specification lists it
SpecDbLabelTable ==
    << <<"SQLite", "Sqlite">>, <<"MySQL", "MySql">>, <<"DB2", "Db2">>,
       <<"PostgreSQL", "PostgreSql">>, <<"MariaDB", "MariaDb">>,
       <<"MSSQL", "MsSql">>, <<"Redis", "Redis">>, <<"AWS", "Aws">>,
       <<"Azure", "Azure">>, <<"GoogleCloud", "GoogleCloud">>,
       <<"Apache", "Apache">> >>

\* the label table with the two labels written as the program writes them
StatedDbLabelTable ==
    << <<"SQLite", "Sqlite">>, <<"MySQL", "MySql">>, <<"DB2", "Db2">>,
       <<"Postgresql", "PostgreSql">>, <<"MariaDB", "MariaDb">>,
       <<"MSSQL", "MsSql">>, <<"Redis", "Redis">>, <<"AWS", "Aws">>,
       <<"Azure", "Azure">>, <<"Google Cloud", "GoogleCloud">>,
       <<"Apache", "Apache">> >>

StatedLogLabelTable ==
    << <<"ERROR", "Error">>, <<"WARN", "Warn">>, <<"INFO", "Info">>,
       <<"DEBUG", "Debug">>, <<"TRACE", "Trace">> >>

\* exact, case-sensitive lookup of a label in a table of <<label, value>>
Lookup(table, label) ==
    IF \E i \in 1..Len(table) : table[i][1] = label
    THEN Some(table[CHOOSE i \in 1..Len(table) : table[i][1] = label][2])
    ELSE None

LabelsOf(table) == { table[i][1] : i \in 1..Len(table) }

\* C8 as stated: from_label is the exact lookup in the label table of the
\* specification's data model (with the labels PostgreSQL and GoogleCloud).
C8_FromLabelSpecTable ==
    /\ ret.op = "DbBackend::from_label" =>
           ret.val = Lookup(SpecDbLabelTable, ret.arg)
    /\ ret.op = "LogLevel::from_label" =>
           ret.val = Lookup(StatedLogLabelTable, ret.arg)

\* C8, amended: DbBackend::from_label is the exact, case-sensitive lookup in
\* the table SQLite, MySQL, DB2, Postgresql, MariaDB, MSSQL, Redis, AWS,
\* Azure, Google Cloud, Apache, every other string (PostgreSQL, GoogleCloud
\* and labels in another case among them) giving None; LogLevel::from_label
\* is the same for ERROR, WARN, INFO, DEBUG, TRACE.
C8_FromLabelExact ==
    /\ ret.op = "DbBackend::from_label" =>
           ret.val = Lookup(StatedDbLabelTable, ret.arg)
    /\ ret.op = "LogLevel::from_label" =>
           ret.val = Lookup(StatedLogLabelTable, ret.arg)

C8_Witness ==
    /\ ret.op = "DbBackend::from_label"
    /\ ret.arg = "Google Cloud"
    /\ ret.val = Some("GoogleCloud")

\* C9: labels round-trip: from_label(v.to_string()) = Some(v) for every
\* value of both enums, so the display labels are pairwise distinct; and the
\* option selected in a dropdown of the form parses to the value that
\* displays as that option.
C9_LabelsRoundTrip ==
    /\ ret.op \in {"DbBackend::round_trip", "LogLevel::round_trip"} =>
           ret.val = Some(ret.arg)
    /\ \A v, w \in DbBackend :
           v # w => DbBackendDisplay(v) # DbBackendDisplay(w)
    /\ \A v, w \in LogLevel :
           v # w => LogLevelDisplay(v) # LogLevelDisplay(w)
    /\ (/\ ret.op = "to_model"
        /\ ret.arg.db_backend_select.items = NewForm.db_backend_select.items
        /\ SelectedValue(ret.arg.db_backend_select).some) =>
           DbBackendDisplay(ret.val.db_backend)
               = SelectedValue(ret.arg.db_backend_select).val
    /\ (/\ ret.op = "to_model"
        /\ ret.arg.log_level_select.items = NewForm.log_level_select.items
        /\ SelectedValue(ret.arg.log_level_select).some) =>
           LogLevelDisplay(ret.val.log_level)
               = SelectedValue(ret.arg.log_level_select).val

C9_Witness ==
    /\ ret.op = "to_model"
    /\ ret.arg.db_backend_select.items = NewForm.db_backend_select.items
    /\ SelectedValue(ret.arg.db_backend_select) = Some("MariaDB")
    /\ SelectedValue(ret.arg.log_level_select) = Some("TRACE")
    /\ ret.val.db_backend = "MariaDb"
    /\ ret.val.log_level = "Trace"

\* no selection, or a selected string that is no label of the table
NoKnownLabel(selected, table) ==
    ~selected.some \/ selected.val \notin LabelsOf(table)

\* C10: a dropdown value that matches no known label, or no selection, is
\* never an error: to_model then gives db_backend SQLite and log_level INFO,
\* and in every case both fields hold one of their enumerated values.
C10_UnknownLabelFallsBack ==
    ret.op = "to_model" =>
        /\ NoKnownLabel(SelectedValue(ret.arg.db_backend_select),
                        StatedDbLabelTable) => ret.val.db_backend = "Sqlite"
        /\ NoKnownLabel(SelectedValue(ret.arg.log_level_select),
                        StatedLogLabelTable) => ret.val.log_level = "Info"
        /\ ret.val.db_backend \in DbBackend
        /\ ret.val.log_level \in LogLevel

C10_Witness ==
    /\ ret.op = "to_model"
    /\ SelectedValue(ret.arg.db_backend_select) = Some("PostgreSQL")
    /\ SelectedValue(ret.arg.log_level_select) = None
    /\ ret.val.db_backend = "Sqlite"
    /\ ret.val.log_level = "Info"


(***************************************************************************)
(* The file selection form as a state machine (components/file_form.rs,    *)
(* lib.rs: build_main_content)                                             *)
(***************************************************************************)
\* the extensions of load_sheet_options, with "xls" left out
SheetExtensionsWithoutXls ==
    { <<"x","l","s","x">>, <<"x","l","s","m">>, <<"x","l","s","b">> }

\* Some("xlsx" | "xlsm" | "xlsb" | "xls") of load_sheet_options
SheetExtensions == { <<"x","l","s","x">>, <<"x","l","s","m">>,
                     <<"x","l","s","b">>, <<"x","l","s">> }

\* vec!["Sheet1", "Sheet2", "Sheet3"]
PlaceholderSheets ==
    << <<"S","h","e","e","t","1">>, <<"S","h","e","e","t","2">>,
       <<"S","h","e","e","t","3">> >>

\* the match of load_sheet_options on the lower-cased extension
SheetsForExtension(e) ==
    IF Matches(e, SheetExtensions) THEN PlaceholderSheets ELSE <<>>

\* load_sheet_options past the trim: the early return, then the match
SheetsForSource(source) ==
    IF source = <<>> THEN <<>> ELSE SheetsForExtension(LoweredExtension(source))

\* FileSelectionForm::load_sheet_options
LoadSheetOptions(f) == SheetsForSource(Trim(f.source_file))

\* the selected_index of set_sheet_options: the first item, if there is one
FirstIndexOf(options) == IF options = <<>> THEN None ELSE Some(1)

\* FileSelectionForm::set_sheet_options
SetSheetOptions(f, options) ==
    [f EXCEPT !.sheets_select = SelectState(options, FirstIndexOf(options))]

\* the three inputs that have a select button, in the order of render
PickerInputs == {"source_file", "database_file", "log_directory"}

\* a set_value that always lands in the source input
SetValueOnSource(f, input, text) == [f EXCEPT !.source_file = text]

\* InputState::set_value on one of the three inputs of the form
SetValue(f, input, text) == [f EXCEPT ![input] = text]

\* what the user may leave in an input by typing: nothing, blanks, paths
\* with blanks around them, Excel and other extensions in either case
TypedTexts(input) ==
    CASE input = "source_file" ->
            { <<>>, <<" ">>, <<" ">> \o InputXlsx \o <<" ", " ">>, InputCsv,
              <<"I","N",".","X","L","S">> }
      [] input = "database_file" -> { <<>>, <<"\t", " ">>, AppDb }
      [] input = "log_directory" -> { <<>>, <<"\t","l","o","g","s"," ">> }

\* the paths a picker may hand back for an input
PickedPaths(input) ==
    CASE input = "source_file" -> { InputXlsx, InputCsv }
      [] input = "database_file" -> { AppDb }
      [] input = "log_directory" -> { <<"/","l","o","g","s">> }

\* the most picker tasks in flight at once
MaxTasks == 2

\* Remove the i-th element of a sequence
RemoveAt(seq, i) == SubSeq(seq, 1, i - 1) \o SubSeq(seq, i + 1, Len(seq))

InitForm ==
    /\ model = DefaultModel
    /\ form = NewForm
    /\ ret = NoCall
    /\ dialog = NoDialog
    /\ chart = NoChart
    /\ tasks = <<>>
    /\ presses = 0
    /\ logging = NoLogging

\* the user edits one of the three inputs, leaving text in it
EditInput(input, text) ==
    /\ form' = SetValue(form, input, text)
    /\ ret' = [op |-> "edit", input |-> input]
    /\ UNCHANGED <<logging, model, dialog, chart, tasks, presses>>

\* a click on a select button: file_select_handler's closure spawns a task
\* that holds a handle to its own input
ClickSelect(input) ==
    /\ Len(tasks) < MaxTasks
    /\ tasks' = Append(tasks, [input |-> input])
    /\ ret' = [op |-> "select", input |-> input]
    /\ UNCHANGED <<logging, model, form, dialog, chart, presses>>

\* the i-th task's dialog ends with a path: state.set_value(path_str, ..)
PickerReturnsPath(i, path) ==
    /\ i \in 1..Len(tasks)
    /\ form' = SetValue(form, tasks[i].input, path)
    /\ tasks' = RemoveAt(tasks, i)
    /\ ret' = [op |-> "picked", input |-> tasks[i].input, path |-> Some(path)]
    /\ UNCHANGED <<logging, model, dialog, chart, presses>>

\* the i-th task's dialog ends with nothing selected
PickerReturnsNone(i) ==
    /\ i \in 1..Len(tasks)
    /\ tasks' = RemoveAt(tasks, i)
    /\ ret' = [op |-> "picked", input |-> tasks[i].input, path |-> None]
    /\ UNCHANGED <<logging, model, form, dialog, chart, presses>>

\* the "Log to stdout" checkbox
ToggleLogStdout ==
    /\ form' = [form EXCEPT !.log_stdout = ~form.log_stdout]
    /\ ret' = [op |-> "log_stdout"]
    /\ UNCHANGED <<logging, model, dialog, chart, tasks, presses>>

\* the "Has headers" checkbox
ToggleHasHeaders ==
    /\ form' = [form EXCEPT !.has_headers = ~form.has_headers]
    /\ ret' = [op |-> "has_headers"]
    /\ UNCHANGED <<logging, model, dialog, chart, tasks, presses>>

\* the user picks the i-th option of the sheet dropdown
SelectSheet(i) ==
    /\ i \in 1..Len(form.sheets_select.items)
    /\ form' = [form EXCEPT !.sheets_select.selected_index = Some(i)]
    /\ ret' = [op |-> "sheet"]
    /\ UNCHANGED <<logging, model, dialog, chart, tasks, presses>>

\* the "Load Sheets" button of build_main_content
LoadSheets ==
    /\ form' = SetSheetOptions(form, LoadSheetOptions(form))
    /\ ret' = [op |-> "load_sheets", before |-> form, model |-> ToModel(form)]
    /\ UNCHANGED <<logging, model, dialog, chart, tasks, presses>>

\* the "Convert Files" button of build_main_content
ConvertFiles ==
    /\ ret' = [op |-> "convert_files", model |-> ToModel(form),
               val |-> ValidateForSubmit(ToModel(form))]
    /\ UNCHANGED <<logging, model, form, dialog, chart, tasks, presses>>

NextForm ==
    \/ \E input \in PickerInputs :
          \E text \in TypedTexts(input) : EditInput(input, text)
    \/ \E input \in PickerInputs : ClickSelect(input)
    \/ \E i \in 1..Len(tasks) :
          \E path \in PickedPaths(tasks[i].input) : PickerReturnsPath(i, path)
    \/ \E i \in 1..Len(tasks) : PickerReturnsNone(i)
    \/ ToggleLogStdout
    \/ ToggleHasHeaders
    \/ \E i \in 1..Len(form.sheets_select.items) : SelectSheet(i)
    \/ LoadSheets
    \/ ConvertFiles

SpecForm == InitForm /\ [][NextForm]_vars

(***************************************************************************)
(* Properties of the form, checked under SpecForm                          *)
(***************************************************************************)
\* C11: in every state of the form reachable by edits of the source input,
\* picker completions and Load Sheets presses, the model to_model builds has
\* a selected sheet only when its source path has an Excel extension.
\* The form keeps the sheet dropdown as the last Load Sheets left it: a
\* source changed afterwards to a path that is no spreadsheet still yields a
\* model with the sheet selected.
C11_SheetOnlyForSpreadsheet ==
    ToModel(form).selected_sheet.some => IsExcel(ToModel(form))

\* text made of whitespace only (the empty text included)
AllWhitespace(s) == \A i \in 1..Len(s) : IsWhitespace(s[i])

\* t is s without its leading and trailing whitespace: s is whitespace, t,
\* whitespace, and t neither starts nor ends with whitespace
IsStripped(t, s) ==
    /\ t = <<>> \/ (~IsWhitespace(t[1]) /\ ~IsWhitespace(t[Len(t)]))
    /\ \E i \in 0..(Len(s) - Len(t)) :
          /\ AllWhitespace(SubSeq(s, 1, i))
          /\ SubSeq(s, i + 1, i + Len(t)) = t
          /\ AllWhitespace(SubSeq(s, i + Len(t) + 1, Len(s)))

Converted == ret.op = "convert_files"

\* C12: the model Convert Files builds with to_model carries the source,
\* database and log-directory inputs without their leading and trailing
\* whitespace; an input of whitespace only gives an empty path, and for the
\* source and the database validate_for_submit then reports the message
\* that the file is required.
C12_ModelCarriesTrimmedPaths ==
    Converted =>
        /\ IsStripped(ret.model.source_file, form.source_file)
        /\ IsStripped(ret.model.database_file, form.database_file)
        /\ IsStripped(ret.model.log_directory, form.log_directory)
        /\ AllWhitespace(form.source_file) =>
              ret.model.source_file = <<>> /\ Reported(ret.val, SourceRequired)
        /\ AllWhitespace(form.database_file) =>
              ret.model.database_file = <<>>
              /\ Reported(ret.val, DatabaseRequired)
        /\ AllWhitespace(form.log_directory) => ret.model.log_directory = <<>>

\* Convert Files pressed with blanks in the source and the database inputs
\* and a log directory typed with whitespace around it
C12_Witness ==
    /\ Converted
    /\ form.source_file = <<" ">>
    /\ form.database_file = <<"\t", " ">>
    /\ form.log_directory = <<"\t","l","o","g","s"," ">>
    /\ ret.model.log_directory = <<"l","o","g","s">>
    /\ ret.val = Err(<<SourceRequired, DatabaseRequired>>)

\* the model the form is said to give before any input
StatedFreshModel ==
    [source_file |-> <<>>, database_file |-> <<>>, log_directory |-> <<>>,
     db_backend |-> "Sqlite", log_level |-> "Info",
     selected_sheet |-> None, log_stdout |-> FALSE, has_headers |-> TRUE]

\* C13: the model collected from a form as FileSelectionForm::new leaves it
\* has db_backend SQLite, log_level INFO, log_stdout false, has_headers
\* true, no selected sheet and empty source, database and log-directory
\* paths.
C13_FreshFormModel ==
    /\ ToModel(NewForm) = StatedFreshModel
    /\ DbBackendDisplay(ToModel(NewForm).db_backend) = "SQLite"
    /\ LogLevelDisplay(ToModel(NewForm).log_level) = "INFO"
    /\ Converted /\ form = NewForm => ret.model = StatedFreshModel

\* Convert Files pressed on the form as constructed
C13_Witness ==
    /\ Converted
    /\ form = NewForm
    /\ ret.model.has_headers
    /\ ~ret.model.selected_sheet.some

(***************************************************************************)
(* The default model, checked under SpecModel                              *)
(***************************************************************************)
\* the model FileFormModel::default() is said to be
StatedDefaultModel ==
    [source_file |-> <<>>, database_file |-> <<>>, log_directory |-> <<>>,
     db_backend |-> "Sqlite", log_level |-> "Info",
     selected_sheet |-> None, log_stdout |-> FALSE, has_headers |-> FALSE]

\* C14: FileFormModel::default() has empty source, database and
\* log-directory paths, no selected sheet, log_stdout false, has_headers
\* false, db_backend SQLite and log_level INFO, and validate_for_submit on
\* it fails with the source message then the database message.
C14_DefaultModel ==
    /\ DefaultModel = StatedDefaultModel
    /\ DbBackendDisplay(DefaultModel.db_backend) = "SQLite"
    /\ LogLevelDisplay(DefaultModel.log_level) = "INFO"
    /\ Validated /\ model = StatedDefaultModel =>
          ret.val = Err(<<SourceRequired, DatabaseRequired>>)

\* validate_for_submit applied to the default model
C14_Witness ==
    /\ Validated
    /\ model = DefaultModel
    /\ ~ret.val.ok

(***************************************************************************)
(* main.rs: DateInputDialog::validate_date                                 *)
(***************************************************************************)
\* the characters char::is_ascii_digit accepts, by value
DigitChars == <<"0", "1", "2", "3", "4", "5", "6", "7", "8", "9">>

\* char::is_ascii_digit
IsAsciiDigit(c) == \E i \in 1..Len(DigitChars) : DigitChars[i] = c

\* the value of a digit
DigitValue(c) == (CHOOSE i \in 1..Len(DigitChars) : DigitChars[i] = c) - 1

RECURSIVE DigitsValue(_)
\* the number a text of digits spells, most significant digit first
DigitsValue(s) ==
    IF s = <<>> THEN 0
    ELSE DigitsValue(SubSeq(s, 1, Len(s) - 1)) * 10 + DigitValue(s[Len(s)])

\* str::parse::<i32>() and str::parse::<u32>() on the texts the key handler
\* leaves in a field (digits only, four at most: no sign, no overflow): an
\* empty text or a character that is no digit is an error
ParseNumber(s) ==
    IF s # <<>> /\ \A i \in 1..Len(s) : IsAsciiDigit(s[i])
    THEN [ok |-> TRUE, val |-> DigitsValue(s)]
    ELSE [ok |-> FALSE]

RECURSIVE DecimalString(_)
\* the {} of format! for an unsigned number
DecimalString(n) ==
    IF n < 10 THEN DigitChars[n + 1]
    ELSE DecimalString(n \div 10) \o DigitChars[(n % 10) + 1]

\* (year % 4 == 0 && year % 100 != 0) || (year % 400 == 0)
IsLeapYear(year) == (year % 4 = 0 /\ year % 100 # 0) \/ year % 400 = 0

\* let max_days = match month { .. }, with no leap years
MaxDaysNoLeap(year, month) ==
    CASE month = 2 -> 28
      [] month \in {4, 6, 9, 11} -> 30
      [] OTHER -> 31

\* let max_days = match month { .. }, every fourth year a leap year
MaxDaysJulian(year, month) ==
    CASE month = 2 -> IF year % 4 = 0 THEN 29 ELSE 28
      [] month \in {4, 6, 9, 11} -> 30
      [] OTHER -> 31

\* let max_days = match month { .. }
MaxDays(year, month) ==
    CASE month = 2 -> IF IsLeapYear(year) THEN 29 ELSE 28
      [] month \in {4, 6, 9, 11} -> 30
      [] OTHER -> 31

\* if day > max_days { .. format!(..) .. return false } .. None
CheckMaxDays(month, day, max_days) ==
    IF day > max_days
    THEN Some("Invalid day for month " \o DecimalString(month)
              \o ". Maximum is " \o DecimalString(max_days))
    ELSE None

\* the range checks of validate_date, on the parsed numbers
CheckRanges(year, month, day) ==
    IF year < 1900 \/ year > 2100
    THEN Some("Year must be between 1900 and 2100")
    ELSE IF month < 1 \/ month > 12
    THEN Some("Month must be between 1 and 12")
    ELSE IF day < 1 \/ day > 31
    THEN Some("Day must be between 1 and 31")
    ELSE CheckMaxDays(month, day, MaxDays(year, month))

\* validate_date with the range checks of each field done as soon as the
\* field has been parsed
CheckParsedFieldByField(y, m, d) ==
    IF ~y.ok THEN Some("Year must be a valid number")
    ELSE IF y.val < 1900 \/ y.val > 2100
    THEN Some("Year must be between 1900 and 2100")
    ELSE IF ~m.ok THEN Some("Month must be a valid number")
    ELSE IF m.val < 1 \/ m.val > 12
    THEN Some("Month must be between 1 and 12")
    ELSE IF ~d.ok THEN Some("Day must be a valid number")
    ELSE CheckRanges(y.val, m.val, d.val)

\* the three parses of validate_date, then the range checks
CheckParsed(y, m, d) ==
    IF ~y.ok THEN Some("Year must be a valid number")
    ELSE IF ~m.ok THEN Some("Month must be a valid number")
    ELSE IF ~d.ok THEN Some("Day must be a valid number")
    ELSE CheckRanges(y.val, m.val, d.val)

\* what validate_date leaves in validation_error for the texts of a dialog
DateError(d) ==
    CheckParsed(ParseNumber(d.year), ParseNumber(d.month), ParseNumber(d.day))

\* DateInputDialog::validate_date: the dialog after the call
ValidateDate(d) == [d EXCEPT !.validation_error = DateError(d)]

\* DateInputDialog::validate_date: the value returned
DateIsValid(d) == ~DateError(d).some

(***************************************************************************)
(* main.rs: days_between_dates                                             *)
(***************************************************************************)
\* the count taken from the birth date to the reference date's number,
\* the other way round
DaysBetweenDatesReversed(year, month, day) ==
    (year * 365 + month * 30 + day) - (2025 * 365 + 11 * 30 + 1)

\* days_between_dates; the products and sums stay far inside i32 for the
\* four-digit years a dialog can hold
DaysBetweenDates(year, month, day) ==
    (2025 * 365 + 11 * 30 + 1) - (year * 365 + month * 30 + day)

(***************************************************************************)
(* main.rs: DateInputDialog, BiorhythmChart                                *)
(***************************************************************************)
\* the dialog windows: the one main() opens (is_initial) and one opened by
\* a double click on the chart
DialogIds == {"initial", "reopened"}

\* a dialog window that is not open
ClosedDialog == [open |-> FALSE]

\* DateInputDialog::new(is_initial, chart_window, cx); no field has the
\* keyboard focus until one is clicked
NewDialog(is_initial, chart_window) ==
    [open |-> TRUE,
     year |-> <<"1","9","9","0">>, month |-> <<"1">>, day |-> <<"1">>,
     is_initial |-> is_initial, chart_window |-> chart_window,
     focus |-> None, validation_error |-> None,
     year_cursor |-> 4, month_cursor |-> 1, day_cursor |-> 1]

(***************************************************************************)
(* validate_date and days_between_dates applied to the texts of a dialog   *)
(***************************************************************************)
RECURSIVE DecimalText(_)
\* the digits of a number, as the keys that type it
DecimalText(n) ==
    IF n < 10 THEN <<DigitChars[n + 1]>>
    ELSE Append(DecimalText(n \div 10), DigitChars[(n % 10) + 1])

\* years around both ends of the accepted range, leap years, years
\* divisible by 100 and by 400, the reference year, short and long texts
YearTexts ==
    { <<>>, <<"0","0","0","0">>, <<"0","4">> }
    \cup { DecimalText(n) :
             n \in (1896..1904) \cup (1996..2004) \cup (2023..2026)
                   \cup (2096..2104) \cup {0, 199, 400, 1990, 9999} }

MonthTexts ==
    { <<>>, <<"0","0">>, <<"0","2">>, <<"9","9">> }
    \cup { DecimalText(n) : n \in 0..13 }

DayTexts ==
    { <<>>, <<"0","0">>, <<"0","1">>, <<"9","9">> }
    \cup { DecimalText(n) : n \in 0..33 }

\* what an earlier failed validation may have left in validation_error
PriorErrors == { None, Some("Day must be between 1 and 31") }

\* a dialog holding the given texts, its cursors at their ends
DialogWith(y, m, d, error) ==
    [NewDialog(TRUE, Some("chart")) EXCEPT
         !.year = y, !.month = m, !.day = d, !.validation_error = error,
         !.year_cursor = Len(y), !.month_cursor = Len(m), !.day_cursor = Len(d)]

InitDate ==
    /\ model = DefaultModel
    /\ form = NewForm
    /\ ret = NoCall
    /\ \E y \in YearTexts, m \in MonthTexts, d \in DayTexts, e \in PriorErrors :
          dialog = [w \in DialogIds |->
                       IF w = "initial" THEN DialogWith(y, m, d, e)
                       ELSE ClosedDialog]
    /\ chart = NoChart
    /\ tasks = <<>>
    /\ presses = 0
    /\ logging = NoLogging

\* w.validate_date()
CallValidateDate(w) ==
    /\ dialog[w].open
    /\ dialog' = [dialog EXCEPT ![w] = ValidateDate(dialog[w])]
    /\ ret' = [op |-> "validate_date", window |-> w, arg |-> dialog[w],
               val |-> DateIsValid(dialog[w])]
    /\ UNCHANGED <<logging, model, form, chart, tasks, presses>>

\* days_between_dates(year, month, day) on the numbers the texts of w spell
CallDaysBetweenDates(w, y, m, d) ==
    /\ dialog[w].open
    /\ y.ok /\ m.ok /\ d.ok
    /\ ret' = [op |-> "days_between_dates", arg |-> <<y.val, m.val, d.val>>,
               val |-> DaysBetweenDates(y.val, m.val, d.val)]
    /\ UNCHANGED <<logging, model, form, dialog, chart, tasks, presses>>

NextDate ==
    \/ \E w \in DialogIds : CallValidateDate(w)
    \/ \E w \in DialogIds :
          CallDaysBetweenDates(w, ParseNumber(dialog[w].year),
                               ParseNumber(dialog[w].month),
                               ParseNumber(dialog[w].day))

SpecDate == InitDate /\ [][NextDate]_vars

(***************************************************************************)
(* Properties of validate_date and days_between_dates, under SpecDate      *)
(***************************************************************************)
DateValidated == ret.op = "validate_date"

\* the numbers the three texts handed to the last validate_date spell
YearOf(r) == ParseNumber(r.arg.year)

MonthOf(r) == ParseNumber(r.arg.month)

DayOf(r) == ParseNumber(r.arg.day)

AllNumbers(r) == YearOf(r).ok /\ MonthOf(r).ok /\ DayOf(r).ok

\* the last validate_date was handed texts spelling the date y-m-d
ValidatedDate(y, m, d) ==
    /\ DateValidated
    /\ AllNumbers(ret)
    /\ YearOf(ret).val = y /\ MonthOf(ret).val = m /\ DayOf(ret).val = d

\* the validation_error the validated dialog is left with
ErrorLeft == dialog[ret.window].validation_error

\* divisible by 4 and (not divisible by 100 or divisible by 400)
StatedLeapYear(y) == y % 4 = 0 /\ (y % 100 # 0 \/ y % 400 = 0)

\* 28 or 29 for February, 30 for April, June, September and November, 31
\* for every other month
StatedMaxDay(y, m) ==
    IF m = 2 THEN (IF StatedLeapYear(y) THEN 29 ELSE 28)
    ELSE IF m = 4 \/ m = 6 \/ m = 9 \/ m = 11 THEN 30
    ELSE 31

StatedAccepted(y, m, d) ==
    /\ 1900 <= y /\ y <= 2100
    /\ 1 <= m /\ m <= 12
    /\ 1 <= d /\ d <= StatedMaxDay(y, m)

\* C15: validate_date accepts a (year, month, day) exactly when the year is
\* in [1900, 2100], the month in [1, 12] and the day in [1, max], max being
\* 28 or 29 for February, 30 for April, June, September and November and 31
\* otherwise; whatever else it is handed is rejected with a message left in
\* validation_error.
C15_AcceptsExactlyValidDates ==
    DateValidated =>
        /\ AllNumbers(ret) =>
              (ret.val <=> StatedAccepted(YearOf(ret).val, MonthOf(ret).val,
                                          DayOf(ret).val))
        /\ ~AllNumbers(ret) => ~ret.val
        /\ ret.val \in BOOLEAN
        /\ ~ret.val => ErrorLeft.some

\* 31 April handed to validate_date and rejected for the day-of-month bound
C15_Witness ==
    /\ ValidatedDate(2024, 4, 31)
    /\ ~ret.val
    /\ ErrorLeft = Some("Invalid day for month 4. Maximum is 30")

\* a field that is no number or lies outside lo..hi
FieldInvalid(n, lo, hi) == ~n.ok \/ n.val < lo \/ n.val > hi

\* the message for an invalid field of the given name
FieldMessage(n, name, range) ==
    IF ~n.ok THEN name \o " must be a valid number"
    ELSE name \o " must be between " \o range

StatedBoundMessage(y, m) ==
    "Invalid day for month " \o DecimalString(m) \o ". Maximum is "
        \o DecimalString(StatedMaxDay(y, m))

\* the message of the first invalid field, the fields taken in the order
\* year, month, day, then the day-of-month bound
FirstInvalidField(y, m, d) ==
    IF FieldInvalid(y, 1900, 2100)
    THEN Some(FieldMessage(y, "Year", "1900 and 2100"))
    ELSE IF FieldInvalid(m, 1, 12)
    THEN Some(FieldMessage(m, "Month", "1 and 12"))
    ELSE IF FieldInvalid(d, 1, 31)
    THEN Some(FieldMessage(d, "Day", "1 and 31"))
    ELSE IF d.val > StatedMaxDay(y.val, m.val)
    THEN Some(StatedBoundMessage(y.val, m.val))
    ELSE None

\* C16 as stated: validate_date leaves in validation_error the one message
\* of the first invalid field in the order year, month, day, day-of-month
\* bound, or None if the date is accepted.
\* validate_date parses all three fields before it checks any range, so a
\* year out of range followed by a month that is no number is reported as
\* the month's.
C16_FirstInvalidField ==
    DateValidated =>
        ErrorLeft = FirstInvalidField(YearOf(ret), MonthOf(ret), DayOf(ret))

\* the checks of validate_date in the order they are made: is the year a
\* number, the month, the day; then the year's range, the month's, the
\* day's; then the day-of-month bound
StatedChecks(y, m, d) ==
    << <<~y.ok, "Year must be a valid number">>,
       <<~m.ok, "Month must be a valid number">>,
       <<~d.ok, "Day must be a valid number">>,
       <<y.ok /\ (y.val < 1900 \/ y.val > 2100),
         "Year must be between 1900 and 2100">>,
       <<m.ok /\ (m.val < 1 \/ m.val > 12), "Month must be between 1 and 12">>,
       <<d.ok /\ (d.val < 1 \/ d.val > 31), "Day must be between 1 and 31">>,
       <<y.ok /\ m.ok /\ d.ok /\ d.val > StatedMaxDay(y.val, m.val),
         IF y.ok /\ m.ok /\ m.val > 0 THEN StatedBoundMessage(y.val, m.val)
         ELSE "">> >>

\* the message of the first check that fails, None if none does
FirstFailure(checks) ==
    IF \E i \in 1..Len(checks) : checks[i][1]
    THEN Some(checks[CHOOSE i \in 1..Len(checks) :
                        checks[i][1] /\ \A j \in 1..(i - 1) : ~checks[j][1]][2])
    ELSE None

\* C16, amended: validate_date stops at the first check that fails, the
\* checks made in the order year is a number, month is a number, day is a
\* number, year in range, month in range, day in range, day-of-month bound;
\* after the call validation_error holds that one message, or None if the
\* date is accepted, whatever it held before.
C16_FirstFailedCheck ==
    DateValidated =>
        /\ ErrorLeft
             = FirstFailure(StatedChecks(YearOf(ret), MonthOf(ret), DayOf(ret)))
        /\ ret.val <=> ~ErrorLeft.some

\* a year out of range, a month that is no number and a day out of range
\* handed to validate_date at once, an earlier message still held
C16_Witness ==
    /\ DateValidated
    /\ ret.arg.year = <<"1","8","9","9">>
    /\ ret.arg.month = <<>>
    /\ ret.arg.day = <<"9","9">>
    /\ ret.arg.validation_error = Some("Day must be between 1 and 31")
    /\ ErrorLeft = Some("Month must be a valid number")

\* C17: validate_date accepts 29 February exactly for the years in
\* [1900, 2100] divisible by 4 and (not divisible by 100 or divisible by
\* 400): 2024-02-29 and 2000-02-29 are accepted; 2023-02-29, 1900-02-29 and
\* 2100-02-29 are rejected with "Invalid day for month 2. Maximum is 28";
\* 1899-01-01 is rejected with the year-range message.
C17_LeapDay ==
    /\ ValidatedDate(YearOf(ret).val, 2, 29) =>
          (ret.val <=> /\ 1900 <= YearOf(ret).val
                       /\ YearOf(ret).val <= 2100
                       /\ StatedLeapYear(YearOf(ret).val))
    /\ ValidatedDate(2024, 2, 29) \/ ValidatedDate(2000, 2, 29) =>
          ret.val /\ ErrorLeft = None
    /\ \/ ValidatedDate(2023, 2, 29)
       \/ ValidatedDate(1900, 2, 29)
       \/ ValidatedDate(2100, 2, 29)
       => ~ret.val
          /\ ErrorLeft = Some("Invalid day for month 2. Maximum is 28")
    /\ ValidatedDate(1899, 1, 1) =>
          ~ret.val /\ ErrorLeft = Some("Year must be between 1900 and 2100")

\* 29 February 1900 handed to validate_date: divisible by 4 and by 100, not
\* by 400
C17_Witness ==
    /\ ValidatedDate(1900, 2, 29)
    /\ ~ret.val
    /\ ErrorLeft = Some("Invalid day for month 2. Maximum is 28")

DaysCounted == ret.op = "days_between_dates"

\* a date of the calendar after 1 November 2025
AfterReference(y, m, d) ==
    /\ m \in 1..12 /\ d \in 1..31
    /\ \/ y > 2025
       \/ y = 2025 /\ m > 11
       \/ y = 2025 /\ m = 11 /\ d > 1

\* C19: days_between_dates counts every month as 30 days and every year as
\* 365: for the birth date (y, m, d) it returns
\* (2025*365 + 11*30 + 1) - (y*365 + m*30 + d), a signed count that is 0 for
\* 2025-11-01 and negative for a later birth date.
C19_SimplifiedDayCount ==
    DaysCounted =>
        /\ ret.val = (2025 * 365 + 11 * 30 + 1)
                       - (ret.arg[1] * 365 + ret.arg[2] * 30 + ret.arg[3])
        /\ ret.arg = <<2025, 11, 1>> => ret.val = 0
        /\ AfterReference(ret.arg[1], ret.arg[2], ret.arg[3]) => ret.val < 0

\* the count for a birth date after the reference date
C19_Witness ==
    /\ DaysCounted
    /\ ret.arg = <<2026, 2, 28>>
    /\ ret.val = -122

(***************************************************************************)
(* The date dialogs and the chart as a state machine (main.rs)             *)
(***************************************************************************)
\* BiorhythmChart::new, then set_handle as main() calls it at once
NewChart ==
    [open |-> TRUE, birthdate |-> Some(<<1990, 1, 1>>),
     self_handle |-> Some("chart")]

\* BiorhythmChart::update_birthdate
UpdateBirthdate(c, year, month, day) ==
    [c EXCEPT !.birthdate = Some(<<year, month, day>>)]

\* chart_window.update(cx, |chart, ..| chart.update_birthdate(..)).ok():
\* nothing happens without a handle or once the chart window is gone
UpdateThroughHandle(c, handle, year, month, day) ==
    IF handle.some /\ c.open THEN UpdateBirthdate(c, year, month, day) ELSE c

\* the chart after a submit_date that takes any three numbers for a date
ChartAfterSubmitUnchecked(c, d) ==
    IF ParseNumber(d.year).ok /\ ParseNumber(d.month).ok /\ ParseNumber(d.day).ok
    THEN UpdateThroughHandle(c, d.chart_window, ParseNumber(d.year).val,
                             ParseNumber(d.month).val, ParseNumber(d.day).val)
    ELSE c

\* the chart after submit_date on the dialog d
ChartAfterSubmit(c, d) ==
    IF DateIsValid(d)
    THEN UpdateThroughHandle(c, d.chart_window, ParseNumber(d.year).val,
                             ParseNumber(d.month).val, ParseNumber(d.day).val)
    ELSE c

\* a submit_date that closes the window whatever validate_date says
DialogAfterSubmitAlwaysClosed(d) == ClosedDialog

\* the dialog after submit_date: window.remove_window() if the date is
\* valid, the message left by validate_date if not
DialogAfterSubmit(d) ==
    IF DateIsValid(d) THEN ClosedDialog ELSE ValidateDate(d)

\* cx.quit(): every window goes
AllClosed == [w \in DialogIds |-> ClosedDialog]

\* a max_len of four characters for every field
MaxLenOfFourEverywhere(label) == 4

\* let max_len = match label { .. }
MaxLenOf(label) ==
    CASE label = "Year" -> 4
      [] label \in {"Month", "Day"} -> 2
      [] OTHER -> 4

\* the field of the dialog record an input label names
FieldOf(label) ==
    CASE label = "Year" -> "year" [] label = "Month" -> "month"
      [] label = "Day" -> "day"

\* the cursor of the dialog record an input label names
CursorOf(label) ==
    CASE label = "Year" -> "year_cursor" [] label = "Month" -> "month_cursor"
      [] label = "Day" -> "day_cursor"

Labels == {"Year", "Month", "Day"}

\* let safe_cursor = cursor_pos.min(chars.len())
SafeCursor(value, cursor_pos) ==
    IF cursor_pos < Len(value) THEN cursor_pos ELSE Len(value)

\* chars.insert(index, c), for an index within 0..chars.len()
InsertAt(chars, index, c) ==
    SubSeq(chars, 1, index) \o <<c>> \o SubSeq(chars, index + 1, Len(chars))

\* editable_input_field: display_text, the value with the caret in it while
\* the field is focused and the caret is in the visible half of its blink
DisplayText(value, cursor_pos, is_focused, caret_visible) ==
    IF is_focused /\ caret_visible
    THEN InsertAt(value, SafeCursor(value, cursor_pos), "|")
    ELSE value

\* a backspace that pops the character and leaves the cursor where it was
PopFromKeepingCursor(d, label) ==
    [d EXCEPT ![FieldOf(label)] = SubSeq(@, 1, Len(@) - 1)]

\* field_value.pop(); *cursor = field_value.len()
PopFrom(d, label) ==
    [d EXCEPT ![FieldOf(label)] = SubSeq(@, 1, Len(@) - 1),
              ![CursorOf(label)] = Len(d[FieldOf(label)]) - 1]

\* field_value.push_str(key); *cursor = field_value.len()
PushTo(d, label, key) ==
    [d EXCEPT ![FieldOf(label)] = Append(@, key),
              ![CursorOf(label)] = Len(d[FieldOf(label)]) + 1]

\* a "tab" arm that stays on Day instead of wrapping to Year
NextLabelWithoutWrap(label) ==
    CASE label = "Year" -> "Month" [] label = "Month" -> "Day"
      [] label = "Day" -> "Day"

\* the "tab" arm: Year -> Month -> Day -> Year
NextLabel(label) ==
    CASE label = "Year" -> "Month" [] label = "Month" -> "Day"
      [] label = "Day" -> "Year"

\* the "shift-tab" arm: Year -> Day -> Month -> Year
PreviousLabel(label) ==
    CASE label = "Year" -> "Day" [] label = "Month" -> "Year"
      [] label = "Day" -> "Month"

\* the digit keys pressed in the model: enough to type an eleventh and a
\* thirteenth month, a thirteenth day and another year
DigitKeys == {"1", "3"}

\* a key the handler has no arm for
OtherKeys == {"a"}

\* the most key presses that change a field, all dialogs together
MaxPresses == 2

InitDialog ==
    /\ model = DefaultModel
    /\ form = NewForm
    /\ ret = NoCall
    /\ dialog = [w \in DialogIds |->
                    IF w = "initial" THEN NewDialog(TRUE, Some("chart"))
                    ELSE ClosedDialog]
    /\ chart = NewChart
    /\ tasks = <<>>
    /\ presses = 0
    /\ logging = NoLogging

\* on_mouse_down of the field labelled label in the dialog w
MouseDown(w, label) ==
    /\ dialog[w].open
    /\ dialog' = [dialog EXCEPT ![w].focus = Some(label),
                                ![w][CursorOf(label)] =
                                    Len(dialog[w][FieldOf(label)])]
    /\ ret' = [op |-> "input"]
    /\ UNCHANGED <<logging, model, form, chart, tasks, presses>>

\* on_key_down, "backspace", of the focused field of the dialog w
KeyBackspace(w, label) ==
    /\ dialog[w].open /\ dialog[w].focus = Some(label)
    /\ IF dialog[w][CursorOf(label)] > 0 /\ dialog[w][FieldOf(label)] # <<>>
       THEN /\ presses < MaxPresses
            /\ dialog' = [dialog EXCEPT ![w] = PopFrom(dialog[w], label)]
            /\ presses' = presses + 1
       ELSE UNCHANGED <<dialog, presses>>
    /\ ret' = [op |-> "input"]
    /\ UNCHANGED <<logging, model, form, chart, tasks>>

\* on_key_down, a digit key, of the focused field of the dialog w
KeyDigit(w, label, key) ==
    /\ dialog[w].open /\ dialog[w].focus = Some(label)
    /\ IsAsciiDigit(key)
    /\ IF Len(dialog[w][FieldOf(label)]) < MaxLenOf(label)
       THEN /\ presses < MaxPresses
            /\ dialog' = [dialog EXCEPT ![w] = PushTo(dialog[w], label, key)]
            /\ presses' = presses + 1
       ELSE UNCHANGED <<dialog, presses>>
    /\ ret' = [op |-> "input"]
    /\ UNCHANGED <<logging, model, form, chart, tasks>>

\* on_key_down, "tab", of the focused field of the dialog w
KeyTab(w, label) ==
    /\ dialog[w].open /\ dialog[w].focus = Some(label)
    /\ dialog' = [dialog EXCEPT ![w].focus = Some(NextLabel(label))]
    /\ ret' = [op |-> "input"]
    /\ UNCHANGED <<logging, model, form, chart, tasks, presses>>

\* on_key_down, "shift-tab", of the focused field of the dialog w
KeyShiftTab(w, label) ==
    /\ dialog[w].open /\ dialog[w].focus = Some(label)
    /\ dialog' = [dialog EXCEPT ![w].focus = Some(PreviousLabel(label))]
    /\ ret' = [op |-> "input"]
    /\ UNCHANGED <<logging, model, form, chart, tasks, presses>>

\* on_key_down, any other key, of the focused field of the dialog w
KeyIgnored(w, label, key) ==
    /\ dialog[w].open /\ dialog[w].focus = Some(label)
    /\ ~IsAsciiDigit(key)
    /\ ret' = [op |-> "input"]
    /\ UNCHANGED <<logging, model, form, dialog, chart, tasks, presses>>

\* DateInputDialog::submit_date of the dialog w
SubmitDate(w) ==
    /\ dialog[w].open
    /\ chart' = ChartAfterSubmit(chart, dialog[w])
    /\ dialog' = [dialog EXCEPT ![w] = DialogAfterSubmit(dialog[w])]
    /\ ret' = [op |-> "submit_date", window |-> w, before |-> dialog[w],
               birthdate |-> chart.birthdate]
    /\ UNCHANGED <<logging, model, form, tasks, presses>>

\* on_key_down, "enter", of the focused field of the dialog w
KeyEnter(w, label) ==
    /\ dialog[w].open /\ dialog[w].focus = Some(label)
    /\ SubmitDate(w)

\* DateInputDialog::on_ok_clicked
OkClicked(w) ==
    /\ dialog[w].open
    /\ SubmitDate(w)

\* a cancel that closes its own window only, in the initial dialog too
CancelClickedClosingOnly(w) ==
    /\ dialog[w].open
    /\ dialog' = [dialog EXCEPT ![w] = ClosedDialog]
    /\ ret' = [op |-> "cancel", window |-> w, before |-> dialog[w],
               birthdate |-> chart.birthdate]
    /\ UNCHANGED <<logging, model, form, chart, tasks, presses>>

\* DateInputDialog::on_cancel_clicked
CancelClicked(w) ==
    /\ dialog[w].open
    /\ IF dialog[w].is_initial
       THEN /\ dialog' = AllClosed
            /\ chart' = [chart EXCEPT !.open = FALSE]
       ELSE /\ dialog' = [dialog EXCEPT ![w] = ClosedDialog]
            /\ UNCHANGED chart
    /\ ret' = [op |-> "cancel", window |-> w, before |-> dialog[w],
               birthdate |-> chart.birthdate]
    /\ UNCHANGED <<logging, model, form, tasks, presses>>

\* BiorhythmChart::on_double_click: a dialog that is not the initial one
\* opens, holding the chart's own handle
DoubleClick(w) ==
    /\ chart.open
    /\ w # "initial" /\ ~dialog[w].open
    /\ dialog' = [dialog EXCEPT ![w] = NewDialog(FALSE, chart.self_handle)]
    /\ ret' = [op |-> "input"]
    /\ UNCHANGED <<logging, model, form, chart, tasks, presses>>

\* the Quit action of either window, or the chart window closed: cx.quit()
Quit ==
    /\ chart.open
    /\ dialog' = AllClosed
    /\ chart' = [chart EXCEPT !.open = FALSE]
    /\ ret' = [op |-> "quit"]
    /\ UNCHANGED <<logging, model, form, tasks, presses>>

NextDialog ==
    \/ \E w \in DialogIds, label \in Labels : MouseDown(w, label)
    \/ \E w \in DialogIds, label \in Labels : KeyBackspace(w, label)
    \/ \E w \in DialogIds, label \in Labels, key \in DigitKeys :
          KeyDigit(w, label, key)
    \/ \E w \in DialogIds, label \in Labels : KeyTab(w, label)
    \/ \E w \in DialogIds, label \in Labels : KeyShiftTab(w, label)
    \/ \E w \in DialogIds, label \in Labels, key \in OtherKeys :
          KeyIgnored(w, label, key)
    \/ \E w \in DialogIds, label \in Labels : KeyEnter(w, label)
    \/ \E w \in DialogIds : OkClicked(w)
    \/ \E w \in DialogIds : CancelClicked(w)
    \/ \E w \in DialogIds : DoubleClick(w)
    \/ Quit

SpecDialog == InitDialog /\ [][NextDialog]_vars

(***************************************************************************)
(* Properties of the dialogs and the chart, checked under SpecDialog       *)
(***************************************************************************)
\* the chart holds a birth date validate_date is said to accept
BirthdateAccepted ==
    /\ chart.birthdate.some
    /\ StatedAccepted(chart.birthdate.val[1], chart.birthdate.val[2],
                      chart.birthdate.val[3])

\* the texts of the dialog d spell the date b, one validate_date is said to
\* accept
SpellsAccepted(d, b) ==
    /\ ParseNumber(d.year).ok /\ ParseNumber(d.month).ok /\ ParseNumber(d.day).ok
    /\ b = <<ParseNumber(d.year).val, ParseNumber(d.month).val,
             ParseNumber(d.day).val>>
    /\ StatedAccepted(b[1], b[2], b[3])

\* a step that changes the chart's birth date is a submit_date of an open
\* dialog whose texts spell the new date, a date validate_date accepts
ChangedBySubmission ==
    chart.birthdate' # chart.birthdate =>
        /\ ret'.op = "submit_date"
        /\ dialog[ret'.window].open
        /\ chart.birthdate'.some
        /\ SpellsAccepted(dialog[ret'.window], chart.birthdate'.val)

\* C18: whatever keys are pressed, dates submitted with OK or Enter,
\* dialogs cancelled and opened again, the chart holds a birth date that
\* validate_date accepts: 1990-01-01 at first, and afterwards changed only
\* by a submission whose validation succeeded.
C18_BirthdateValidated ==
    /\ [](BirthdateAccepted)
    /\ [](ret = NoCall => chart.birthdate = Some(<<1990, 1, 1>>))
    /\ [][ChangedBySubmission]_vars

\* a submission has changed the birth date, and a later one, of a
\* thirteenth month, has failed and left it
C18_Witness ==
    /\ ret.op = "submit_date"
    /\ ret.before.month = <<"1","3">>
    /\ dialog[ret.window].validation_error
         = Some("Month must be between 1 and 12")
    /\ chart.birthdate = Some(<<1990, 11, 1>>)


(***************************************************************************)
(* main.rs: the chart's sample series (create_cycle_points and             *)
(* create_cycle_lines, called by render_chart_lines)                       *)
(***************************************************************************)
\* the cycle lengths render_chart_lines draws: 23.0 (physical),
\* 28.0 (emotional) and 33.0 (intellectual)
CycleLengths == {23, 28, 33}

\* render_chart_lines: days_to_show
DaysToShow == 33

\* create_cycle_lines: steps, the rectangles drawn for one line piece
LineSteps == 10

\* the call calculate_biorhythm(days_since_birth, cycle_length); its f64
\* value is not computed, a sample carries the arguments of its call
CalculateBiorhythm(days_since_birth, cycle_length) ==
    [days_since_birth |-> days_since_birth, cycle_length |-> cycle_length]

\* one sample: the loop index i (x = i * x_step) and the value (y)
SampleAt(days_since_birth, cycle_length, i) ==
    [offset |-> i,
     value |-> CalculateBiorhythm(days_since_birth + i, cycle_length)]

\* the series starting one day late
CreateCyclePointsFromNextDay(days_since_birth, cycle_length, days) ==
    [k \in 1..days |-> SampleAt(days_since_birth + 1, cycle_length, k - 1)]

\* create_cycle_points: for i in 0..days, one point per day
CreateCyclePoints(days_since_birth, cycle_length, days) ==
    [k \in 1..days |-> SampleAt(days_since_birth, cycle_length, k - 1)]

\* the rectangle number step of the line piece that leaves sample i:
\* (x1, y1) is sample i, (x2, y2) is sample i + 1, t = step / steps
LinePiece(days_since_birth, cycle_length, i, step) ==
    [from |-> SampleAt(days_since_birth, cycle_length, i),
     to |-> SampleAt(days_since_birth, cycle_length, i + 1),
     step |-> step]

\* create_cycle_lines: for i in 0..(days - 1), for step in 0..steps
CreateCycleLines(days_since_birth, cycle_length, days) ==
    [n \in 1..(LineSteps * (days - 1)) |->
        LinePiece(days_since_birth, cycle_length,
                  (n - 1) \div LineSteps, (n - 1) % LineSteps)]

\* BiorhythmChart::render: days_since_birth of the chart's birth date
DaysSinceBirth(c) ==
    IF c.birthdate.some
    THEN DaysBetweenDates(c.birthdate.val[1], c.birthdate.val[2],
                          c.birthdate.val[3])
    ELSE 0

\* the birth dates a chart is given: dates a dialog accepts
Birthdates ==
    {<<y, m, d>> : y \in {1900, 1990, 2025, 2100}, m \in {1, 12},
                   d \in {1, 28}}

\* the sample counts of the direct calls
MaxCount == 3

\* the day counts of the direct calls
SampleDays == {-27, 0, 13075}

InitChart ==
    /\ model = DefaultModel
    /\ form = NewForm
    /\ ret = NoCall
    /\ dialog = [w \in DialogIds |-> ClosedDialog]
    /\ \E b \in Birthdates : chart = UpdateBirthdate(NewChart, b[1], b[2], b[3])
    /\ tasks = <<>>
    /\ presses = 0
    /\ logging = NoLogging

\* render_chart_lines(days_since_birth) for the chart's birth date: the
\* lines and the points of the three cycles
RenderChartLines ==
    /\ chart.open
    /\ ret' = [op |-> "render_chart_lines",
               days_since_birth |-> DaysSinceBirth(chart),
               count |-> DaysToShow,
               points |-> [c \in CycleLengths |->
                              CreateCyclePoints(DaysSinceBirth(chart), c,
                                                DaysToShow)],
               lines |-> [c \in CycleLengths |->
                             CreateCycleLines(DaysSinceBirth(chart), c,
                                              DaysToShow)]]
    /\ UNCHANGED <<logging, model, form, dialog, chart, tasks, presses>>

\* create_cycle_points(days_since_birth, cycle_length, .., days)
CallCreateCyclePoints(days_since_birth, cycle_length, days) ==
    /\ ret' = [op |-> "create_cycle_points",
               days_since_birth |-> days_since_birth,
               cycle_length |-> cycle_length, count |-> days,
               val |-> CreateCyclePoints(days_since_birth, cycle_length, days)]
    /\ UNCHANGED <<logging, model, form, dialog, chart, tasks, presses>>

\* create_cycle_lines(days_since_birth, cycle_length, .., days)
CallCreateCycleLines(days_since_birth, cycle_length, days) ==
    /\ ret' = [op |-> "create_cycle_lines",
               days_since_birth |-> days_since_birth,
               cycle_length |-> cycle_length, count |-> days,
               val |-> CreateCycleLines(days_since_birth, cycle_length, days)]
    /\ UNCHANGED <<logging, model, form, dialog, chart, tasks, presses>>

NextChart ==
    \/ RenderChartLines
    \/ \E d \in SampleDays, c \in CycleLengths, n \in 0..MaxCount :
          CallCreateCyclePoints(d, c, n)
    \/ \E d \in SampleDays, c \in CycleLengths, n \in 0..MaxCount :
          CallCreateCycleLines(d, c, n)

SpecChart == InitChart /\ [][NextChart]_vars

(***************************************************************************)
(* The sample series                                                       *)
(***************************************************************************)
\* the series as stated: count samples, the one at offset i computed for
\* day days_since_birth + i
IsSampleSeries(points, days_since_birth, cycle_length, count) ==
    /\ Len(points) = count
    /\ \A i \in 0..(count - 1) :
          /\ points[i + 1].offset = i
          /\ points[i + 1].value.days_since_birth = days_since_birth + i
          /\ points[i + 1].value.cycle_length = cycle_length
    /\ \A i \in 1..(count - 1) : points[i].offset < points[i + 1].offset

\* the pairs of offsets the pieces of a line join
JoinedPairs(lines) ==
    {<<lines[n].from.offset, lines[n].to.offset>> : n \in 1..Len(lines)}

\* the line pieces as stated: they join exactly the pairs (i, i + 1) for
\* i in 0..count-2, and their ends are the samples of the series
JoinsConsecutiveSamples(lines, points, count) ==
    /\ JoinedPairs(lines) = {<<i, i + 1>> : i \in 0..(count - 2)}
    /\ \A n \in 1..Len(lines) :
          /\ lines[n].from = points[lines[n].from.offset + 1]
          /\ lines[n].to = points[lines[n].to.offset + 1]

\* C22: a cycle's sample series has exactly count samples (33 in the
\* chart), at offsets 0..count-1 in ascending order, the sample at offset i
\* computed for day days_since_birth + i; generating it again from the same
\* inputs gives the same sequence; and the line pieces join exactly the
\* consecutive samples (i, i + 1) for i in 0..count-2
C22_SampleSeries ==
    /\ ret # NoCall /\ ret.op = "create_cycle_points" =>
          /\ IsSampleSeries(ret.val, ret.days_since_birth, ret.cycle_length,
                            ret.count)
          /\ ret.val = CreateCyclePoints(ret.days_since_birth,
                                         ret.cycle_length, ret.count)
    /\ ret # NoCall /\ ret.op = "create_cycle_lines" =>
          JoinsConsecutiveSamples(
              ret.val,
              CreateCyclePoints(ret.days_since_birth, ret.cycle_length,
                                ret.count),
              ret.count)
    /\ ret # NoCall /\ ret.op = "render_chart_lines" =>
          /\ ret.count = 33
          /\ ret.days_since_birth = DaysSinceBirth(chart)
          /\ \A c \in CycleLengths :
                /\ IsSampleSeries(ret.points[c], ret.days_since_birth, c, 33)
                /\ JoinsConsecutiveSamples(ret.lines[c], ret.points[c], 33)

\* the chart of someone born on 1990-01-01 has been drawn: the 23-day
\* cycle has 33 samples, the last at offset 32 for day 13075 + 32, and
\* its last line piece joins the samples 31 and 32
C22_Witness ==
    /\ ret # NoCall /\ ret.op = "render_chart_lines"
    /\ chart.birthdate = Some(<<1990, 1, 1>>)
    /\ ret.days_since_birth = 13075
    /\ Len(ret.points[23]) = 33
    /\ ret.points[23][33] = [offset |-> 32,
                             value |-> [days_since_birth |-> 13107,
                                        cycle_length |-> 23]]
    /\ Len(ret.lines[23]) = 320
    /\ ret.lines[23][320].from.offset = 31
    /\ ret.lines[23][320].to.offset = 32


(***************************************************************************)
(* The date dialog: submission, keys, focus, cancel, cursors               *)
(***************************************************************************)
\* the date the texts of a dialog spell
ParsedDate(d) ==
    <<ParseNumber(d.year).val, ParseNumber(d.month).val,
      ParseNumber(d.day).val>>

\* C23: submit_date (OK click or Enter) has exactly two outcomes: if
\* validate_date succeeds the chart's birth date becomes the parsed (year,
\* month, day) and the dialog window is closed; if it fails the dialog stays
\* open with validation_error set and the chart's birth date is unchanged
C23_SubmitTwoOutcomes ==
    ret.op = "submit_date" =>
        IF DateIsValid(ret.before)
        THEN /\ chart.birthdate = Some(ParsedDate(ret.before))
             /\ ~dialog[ret.window].open
        ELSE /\ dialog[ret.window].open
             /\ dialog[ret.window].validation_error.some
             /\ chart.birthdate = ret.birthdate

\* a second digit typed into the month, and the date submitted: the birth
\* date has gone from 1990-01-01 to 1990-11-01 and the window is closed
C23_Witness ==
    /\ ret.op = "submit_date"
    /\ ret.before.month = <<"1","1">>
    /\ ret.birthdate = Some(<<1990, 1, 1>>)
    /\ chart.birthdate = Some(<<1990, 11, 1>>)
    /\ ~dialog[ret.window].open


\* the dropdown as stated after Load Sheets: Sheet1, Sheet2, Sheet3 with
\* the first selected for an Excel source, nothing at all for any other
StatedSheets(is_excel) ==
    IF is_excel
    THEN [items |-> << <<"S","h","e","e","t","1">>, <<"S","h","e","e","t","2">>,
                       <<"S","h","e","e","t","3">> >>,
          selected_index |-> Some(1)]
    ELSE [items |-> <<>>, selected_index |-> None]

\* C24: Load Sheets replaces the sheet dropdown from the current source
\* input: if the trimmed source path has an Excel extension (exactly when
\* the model built from the same form state has is_excel() true) the
\* options become Sheet1, Sheet2, Sheet3 with the first selected, so that
\* the next to_model has selected_sheet Some("Sheet1"); otherwise the
\* options become empty and the selection None
C24_LoadSheets ==
    ret.op = "load_sheets" =>
        /\ form.sheets_select = StatedSheets(IsExcel(ret.model))
        /\ ret.model = ToModel(ret.before)
        /\ form = [ret.before EXCEPT !.sheets_select = form.sheets_select]
        /\ ToModel(form).selected_sheet
             = IF IsExcel(ret.model)
               THEN Some(<<"S","h","e","e","t","1">>) ELSE None

\* Load Sheets pressed on a form whose source is "IN.XLS" and whose
\* dropdown was empty: it now offers the three sheets, the first selected
C24_Witness ==
    /\ ret.op = "load_sheets"
    /\ ret.before.source_file = <<"I","N",".","X","L","S">>
    /\ ret.before.sheets_select.items = <<>>
    /\ Len(form.sheets_select.items) = 3
    /\ ToModel(form).selected_sheet = Some(<<"S","h","e","e","t","1">>)


\* the text of the field of a dialog that a label names
TextOf(d, label) ==
    IF label = "Year" THEN d.year ELSE IF label = "Month" THEN d.month ELSE d.day

\* the longest text a field is said to hold
StatedMaxLen(label) == IF label = "Year" THEN 4 ELSE 2

\* every character of a text is one of 0..9
OnlyDigits(text) ==
    \A i \in 1..Len(text) :
        text[i] \in {"0", "1", "2", "3", "4", "5", "6", "7", "8", "9"}

\* the three fields of an open dialog hold digits only, no more than 4, 2, 2
FieldsWithinBounds ==
    \A w \in DialogIds :
        dialog[w].open =>
            \A label \in Labels :
                /\ OnlyDigits(TextOf(dialog[w], label))
                /\ Len(TextOf(dialog[w], label)) <= StatedMaxLen(label)

\* in this step the text of the field label of the dialog w becomes text,
\* and no other text of any dialog changes
OnlyTextChange(w, label, text) ==
    /\ dialog'[w].open
    /\ TextOf(dialog'[w], label) = text
    /\ \A v \in DialogIds, other \in Labels :
          (v # w \/ other # label) /\ dialog[v].open =>
              /\ dialog'[v].open
              /\ TextOf(dialog'[v], other) = TextOf(dialog[v], other)

\* a digit key appends to the focused field only while it is shorter than
\* its maximum
DigitAppends ==
    \A w \in DialogIds, label \in Labels, key \in DigitKeys :
        KeyDigit(w, label, key) =>
            /\ dialog[w].focus = Some(label)
            /\ OnlyTextChange(w, label,
                   IF Len(TextOf(dialog[w], label)) < StatedMaxLen(label)
                   THEN TextOf(dialog[w], label) \o <<key>>
                   ELSE TextOf(dialog[w], label))

\* backspace removes the last character of the focused field, and does
\* nothing to an empty one
BackspaceRemovesLast ==
    \A w \in DialogIds, label \in Labels :
        KeyBackspace(w, label) =>
            /\ dialog[w].focus = Some(label)
            /\ OnlyTextChange(w, label,
                   IF TextOf(dialog[w], label) = <<>> THEN <<>>
                   ELSE SubSeq(TextOf(dialog[w], label), 1,
                               Len(TextOf(dialog[w], label)) - 1))

\* tab, shift-tab and the keys the handler has no arm for, pressed in the
\* focused field, leave every text of every dialog as it was (which a step
\* that leaves the dialogs as they were does)
OtherKeysKeepTexts ==
    \A w \in DialogIds, label \in Labels :
        /\ dialog[w].open /\ dialog[w].focus = Some(label)
        /\ dialog' # dialog
        /\ \/ KeyTab(w, label) \/ KeyShiftTab(w, label)
           \/ \E key \in OtherKeys : KeyIgnored(w, label, key)
        => \A v \in DialogIds, any \in Labels :
              dialog[v].open =>
                  /\ dialog'[v].open
                  /\ TextOf(dialog'[v], any) = TextOf(dialog[v], any)

\* enter, which submits, leaves the texts of a dialog it does not close
SubmitKeepsTexts ==
    ret.op = "submit_date" /\ dialog[ret.window].open =>
        \A label \in Labels :
            TextOf(dialog[ret.window], label) = TextOf(ret.before, label)

\* C25: in every reachable state of the date dialog the year, month and
\* day fields hold ASCII digits only and are at most 4, 2 and 2 long: a
\* digit key appends to the focused field only while it is below its
\* maximum length, backspace removes its last character and does nothing to
\* an empty field, and every other key leaves all three fields unchanged
C25_DigitFields ==
    /\ [](FieldsWithinBounds)
    /\ [](SubmitKeepsTexts)
    /\ [][DigitAppends]_vars
    /\ [][BackspaceRemovesLast]_vars
    /\ [][OtherKeysKeepTexts]_vars

\* the month has been emptied with backspace and a 3 typed into it, while
\* the year already holds its four digits
C25_Witness ==
    /\ dialog["initial"].open
    /\ dialog["initial"].focus = Some("Month")
    /\ dialog["initial"].month = <<"3">>
    /\ Len(dialog["initial"].year) = 4
    /\ presses = 2


\* the order of the fields as stated: Year, Month, Day, and round again
StatedForward == [Year |-> "Month", Month |-> "Day", Day |-> "Year"]

StatedBackward == [Day |-> "Month", Month |-> "Year", Year |-> "Day"]

\* in this step the focus of the dialog w goes to the field label and
\* nothing else of any dialog changes
OnlyFocusMoves(w, label) ==
    dialog' = [dialog EXCEPT ![w].focus = Some(label)]

\* TAB moves the focus one field forward and changes no text
TabMovesForward ==
    \A w \in DialogIds, label \in Labels :
        KeyTab(w, label) =>
            /\ dialog[w].focus = Some(label)
            /\ OnlyFocusMoves(w, StatedForward[label])

\* SHIFT+TAB moves the focus one field backward and changes no text
ShiftTabMovesBackward ==
    \A w \in DialogIds, label \in Labels :
        KeyShiftTab(w, label) =>
            /\ dialog[w].focus = Some(label)
            /\ OnlyFocusMoves(w, StatedBackward[label])

\* three TABs, or a TAB and then a SHIFT+TAB, lead back to the field they
\* started from
FocusCycles ==
    \A label \in Labels :
        /\ NextLabel(NextLabel(NextLabel(label))) = label
        /\ PreviousLabel(NextLabel(label)) = label
        /\ NextLabel(label) # label

CancelOutcome ==
    ret.op = "cancel" =>
        /\ chart.birthdate = ret.birthdate
        /\ ret.before.is_initial <=> ret.window = "initial"
        /\ IF ret.window = "initial"
           THEN ~chart.open /\ \A w \in DialogIds : ~dialog[w].open
           ELSE chart.open /\ ~dialog[ret.window].open

\* cancelling a dialog opened from the chart leaves the other windows as
\* they are
LaterCancelClosesOnlyItself ==
    \A w \in DialogIds :
        w # "initial" /\ CancelClicked(w) =>
            /\ chart' = chart
            /\ \A v \in DialogIds \ {w} : dialog'[v] = dialog[v]

\* C27: cancelling the initial dialog, opened at startup, quits the
\* application; cancelling a dialog opened later by a double click on the
\* chart only closes that dialog; in both cases the chart's birth date is
\* left as it was, whatever has been typed
C27_CancelByDialog ==
    /\ [](CancelOutcome)
    /\ [][LaterCancelClosesOnlyItself]_vars

\* a dialog opened from the chart was cancelled with a month of 13 typed
\* into it: the initial dialog and the chart are still open, the birth date
\* is still 1990-01-01
C27_Witness ==
    /\ ret.op = "cancel"
    /\ ret.window = "reopened"
    /\ ret.before.month = <<"1", "3">>
    /\ dialog["initial"].open
    /\ chart.open
    /\ chart.birthdate = Some(<<1990, 1, 1>>)


\* the cursor of the field of a dialog that a label names
CursorAt(d, label) ==
    IF label = "Year" THEN d.year_cursor
    ELSE IF label = "Month" THEN d.month_cursor ELSE d.day_cursor

\* C30: in every reachable state of the date dialog each field's cursor
\* position equals the length of that field's text (4, 1, 1 at first, for
\* "1990", "1", "1", and set to the length again by every click, digit and
\* backspace), so that the caret is inserted at an index within the text,
\* at its end
C30_CursorAtEnd ==
    \A w \in DialogIds :
        dialog[w].open =>
            /\ \A label \in Labels :
                  /\ CursorAt(dialog[w], label) = Len(TextOf(dialog[w], label))
                  /\ CursorAt(dialog[w], label) \in 0..Len(TextOf(dialog[w], label))
                  /\ DisplayText(TextOf(dialog[w], label),
                                 CursorAt(dialog[w], label), TRUE, TRUE)
                       = TextOf(dialog[w], label) \o <<"|">>
                  /\ \A is_focused, caret_visible \in BOOLEAN :
                        ~(is_focused /\ caret_visible) =>
                            DisplayText(TextOf(dialog[w], label),
                                        CursorAt(dialog[w], label),
                                        is_focused, caret_visible)
                              = TextOf(dialog[w], label)
            /\ dialog[w] = NewDialog(dialog[w].is_initial, dialog[w].chart_window) =>
                  /\ dialog[w].year = <<"1","9","9","0">> /\ dialog[w].year_cursor = 4
                  /\ dialog[w].month = <<"1">> /\ dialog[w].month_cursor = 1
                  /\ dialog[w].day = <<"1">> /\ dialog[w].day_cursor = 1

\* the month was emptied with backspace and a 3 typed into the day: the
\* cursors stand at 4, 0 and 2, and the focused day shows as 13|
C30_Witness ==
    /\ dialog["initial"].open
    /\ dialog["initial"].focus = Some("Day")
    /\ dialog["initial"].year_cursor = 4
    /\ dialog["initial"].month = <<>>
    /\ dialog["initial"].month_cursor = 0
    /\ dialog["initial"].day_cursor = 2
    /\ DisplayText(dialog["initial"].day, dialog["initial"].day_cursor,
                   TRUE, TRUE) = <<"1", "3", "|">>


(***************************************************************************)
(* The picker tasks of the form                                            *)
(***************************************************************************)
\* a step that starts a task is a click on a select button: the task is
\* bound to the input of the button, and nothing is written into the form
ClickStartsTask ==
    Len(tasks') > Len(tasks) =>
        /\ ret'.op = "select"
        /\ ret'.input \in PickerInputs
        /\ tasks' = Append(tasks, [input |-> ret'.input])
        /\ form' = form

\* a step that ends a task bound to an input: with a path, that input
\* holds the path and the rest of the form is as it was; with nothing
\* selected, the whole form is as it was; the other tasks go on
TaskEndsInOwnInput ==
    Len(tasks') < Len(tasks) =>
        /\ ret'.op = "picked"
        /\ \E i \in 1..Len(tasks) :
              /\ tasks[i].input = ret'.input
              /\ tasks' = SubSeq(tasks, 1, i - 1) \o SubSeq(tasks, i + 1, Len(tasks))
        /\ IF ret'.path.some
           THEN /\ form'[ret'.input] = ret'.path.val
                /\ \A field \in (DOMAIN form) \ {ret'.input} :
                      form'[field] = form[field]
           ELSE form' = form

\* only a task that ends with a path, or the user, writes into an input
OnlyTasksAndEditsWrite ==
    \A input \in PickerInputs :
        form'[input] # form[input] =>
            \/ ret'.op = "edit" /\ ret'.input = input
            \/ ret'.op = "picked" /\ ret'.input = input /\ ret'.path.some

\* the input of the task that has just ended with a path holds that path,
\* whichever tasks ended before it
LastCompletedWins ==
    ret.op = "picked" /\ ret.path.some => form[ret.input] = ret.path.val

\* C28: each click on a select button starts an asynchronous picker task
\* bound to one input field; under any interleaving of the tasks with each
\* other and with the user's edits, a task that ends with a chosen path sets
\* exactly its own input field to that path and touches no other, and a task
\* that ends with no selection changes nothing, so that with overlapping
\* pickers on one field the field ends with the path of the task that
\* completed last
C28_PickerTasks ==
    /\ [](LastCompletedWins)
    /\ [][ClickStartsTask]_vars
    /\ [][TaskEndsInOwnInput]_vars
    /\ [][OnlyTasksAndEditsWrite]_vars

\* two pickers were open on the source input at once: one has just ended
\* with input.xlsx, which the input now holds, the other is still open; the
\* database input, edited by the user, is as it was left
C28_Witness ==
    /\ ret = [op |-> "picked", input |-> "source_file", path |-> Some(InputXlsx)]
    /\ tasks = <<[input |-> "source_file"]>>
    /\ form.source_file = InputXlsx
    /\ form.database_file = AppDb


(***************************************************************************)
(* logging.rs: SET_LOG_LEVEL, set_log_level, store_handle,                 *)
(* init_default_logging, init_logging_with_file                            *)
(*                                                                         *)
(* logging.dispatch is the global default subscriber of the process, named *)
(* by the number of the initialisation call that built it; logging.filter  *)
(* is the directive its reload layer holds; logging.SET_LOG_LEVEL is the   *)
(* stored setter, named by the call whose reload handle it captured.  An   *)
(* initialisation whose try_init succeeded reaches store_handle in a       *)
(* second step (logging.storing), so that calls from other threads fall    *)
(* between the two.                                                        *)
(***************************************************************************)
\* the most initialisation calls that build a subscriber
MaxInits == 3

\* make_filter: the directive of RUST_LOG if the environment has a usable
\* one, "info,gpui_demo=debug" if not
MakeFilters == {"info,gpui_demo=debug", "warn"}

\* the strings set_log_level is called with: the labels of LogLevel that
\* Convert Files passes, a full directive, and a directive with a level
\* that is none
LevelStrings ==
    {"ERROR", "INFO", "DEBUG", "info,gpui_demo=trace", "gpui_demo=loud"}

\* EnvFilter::try_new(level_str) is Ok
ParsesAsFilter(level_str) == level_str # "gpui_demo=loud"

\* a try_init that installs its subscriber over the one already there
TryInitReplacing(l, directive) ==
    [ok |-> TRUE,
     logging |-> [l EXCEPT !.dispatch = Some(l.calls + 1),
                           !.filter = Some(directive),
                           !.calls = l.calls + 1]]

\* registry().with(filter_layer)...try_init(): the subscriber of this call
\* becomes the global default unless there is one already; if there is, the
\* subscriber and its filter layer are dropped
TryInit(l, directive) ==
    IF l.dispatch.some
    THEN [ok |-> FALSE, logging |-> [l EXCEPT !.calls = l.calls + 1]]
    ELSE [ok |-> TRUE,
          logging |-> [l EXCEPT !.dispatch = Some(l.calls + 1),
                                !.filter = Some(directive),
                                !.calls = l.calls + 1]]

\* store_handle(handle) with the handle of the call number call:
\* let _ = SET_LOG_LEVEL.set(..), which an occupied OnceLock refuses
StoreHandleOf(l, call) ==
    IF l.SET_LOG_LEVEL.some THEN l ELSE [l EXCEPT !.SET_LOG_LEVEL = Some(call)]

\* the stored closure: handle.reload(filter) reaches the layer of the
\* handle while the subscriber holding it exists
Reload(l, call, level_str) ==
    IF l.dispatch = Some(call)
    THEN [val |-> Ok, logging |-> [l EXCEPT !.filter = Some(level_str)]]
    ELSE [val |-> Err("filter reload failed"), logging |-> l]

\* the stored closure: EnvFilter::try_new(level_str), then the reload; the
\* message of a rejected string goes on with the text of the parse error
SetLevelFn(l, call, level_str) ==
    IF ParsesAsFilter(level_str)
    THEN Reload(l, call, level_str)
    ELSE [val |-> Err("invalid log level '" \o level_str \o "'"),
          logging |-> l]

\* set_log_level(level)
SetLogLevelOf(l, level) ==
    IF l.SET_LOG_LEVEL.some
    THEN SetLevelFn(l, l.SET_LOG_LEVEL.val, level)
    ELSE [val |-> Err("logging not yet initialized"), logging |-> l]

InitLogging ==
    /\ model = DefaultModel
    /\ form = NewForm
    /\ ret = NoCall
    /\ dialog = NoDialog
    /\ chart = NoChart
    /\ tasks = <<>>
    /\ presses = 0
    /\ logging = NoLogging

\* init_default_logging() up to the test of try_init: a failed try_init
\* ends the call, a successful one goes on to store_handle
InitDefaultLogging(made) ==
    /\ logging.calls < MaxInits
    /\ logging' = [made.logging EXCEPT !.storing = @ \/ made.ok]
    /\ ret' = [op |-> "init_default_logging", call |-> logging.calls + 1,
               try_init |-> made.ok]
    /\ UNCHANGED <<model, form, dialog, chart, tasks, presses>>

\* init_logging_with_file(log_path) whose log file cannot be opened:
\* the ? returns before a subscriber is built
InitLoggingWithFileUnopened ==
    /\ ret' = [op |-> "init_logging_with_file", call |-> 0,
               try_init |-> FALSE, val |-> Err("open")]
    /\ UNCHANGED <<logging, model, form, dialog, chart, tasks, presses>>

\* init_logging_with_file(log_path) up to try_init()?: a failed try_init
\* returns its error, a successful one goes on to store_handle
InitLoggingWithFile(made) ==
    /\ logging.calls < MaxInits
    /\ logging' = [made.logging EXCEPT !.storing = @ \/ made.ok]
    /\ ret' = [op |-> "init_logging_with_file", call |-> logging.calls + 1,
               try_init |-> made.ok,
               val |-> IF made.ok THEN Ok ELSE Err("try_init")]
    /\ UNCHANGED <<model, form, dialog, chart, tasks, presses>>

\* store_handle(handle) of the call whose try_init succeeded
StoreHandle ==
    /\ logging.storing
    /\ logging' = [StoreHandleOf(logging, logging.dispatch.val)
                      EXCEPT !.storing = FALSE]
    /\ ret' = [op |-> "store_handle", call |-> logging.dispatch.val]
    /\ UNCHANGED <<model, form, dialog, chart, tasks, presses>>

\* set_log_level(level), from any thread
SetLogLevel(level, done) ==
    /\ logging' = done.logging
    /\ ret' = [op |-> "set_log_level", level |-> level, val |-> done.val]
    /\ UNCHANGED <<model, form, dialog, chart, tasks, presses>>

NextLogging ==
    \/ \E directive \in MakeFilters :
          InitDefaultLogging(TryInit(logging, directive))
    \/ InitLoggingWithFileUnopened
    \/ \E directive \in MakeFilters :
          InitLoggingWithFile(TryInit(logging, directive))
    \/ StoreHandle
    \/ \E level \in LevelStrings :
          SetLogLevel(level, SetLogLevelOf(logging, level))

SpecLogging == InitLogging /\ [][NextLogging]_vars

(***************************************************************************)
(* The stored reload handle                                                *)
(***************************************************************************)
\* an initialisation has succeeded: a subscriber is installed and the call
\* that installed it has stored its handle
InitSucceeded == logging.dispatch.some /\ ~logging.storing

\* set_log_level answers "logging not yet initialized" exactly while no
\* initialisation has succeeded; when it succeeds, the filter of the first
\* subscriber, the one installed, holds the new directive
SetLogLevelAnswers ==
    ret.op = "set_log_level" =>
        /\ ret.val = [ok |-> FALSE, errors |-> "logging not yet initialized"]
             <=> ~InitSucceeded
        /\ ret.val.ok =>
              /\ logging.SET_LOG_LEVEL = logging.dispatch
              /\ logging.filter = Some(ret.level)

\* a stored handle is the handle of the installed subscriber, the first
\* whose try_init succeeded
HandleOfFirstSubscriber ==
    logging.SET_LOG_LEVEL.some =>
        /\ logging.dispatch = logging.SET_LOG_LEVEL
        /\ logging.dispatch.val <= logging.calls

\* the handle is stored at most once, by store_handle after a successful
\* try_init; the subscriber, once installed, is never replaced; and an
\* initialisation whose try_init fails leaves handle, subscriber and filter
\* as they were
StoredOnce ==
    /\ logging'.SET_LOG_LEVEL # logging.SET_LOG_LEVEL =>
          /\ ~logging.SET_LOG_LEVEL.some
          /\ logging.storing
          /\ ret'.op = "store_handle"
          /\ logging'.SET_LOG_LEVEL = logging.dispatch
    /\ logging'.dispatch # logging.dispatch => ~logging.dispatch.some
    /\ ret'.op \in {"init_default_logging", "init_logging_with_file"}
       /\ ~ret'.try_init =>
          /\ logging'.SET_LOG_LEVEL = logging.SET_LOG_LEVEL
          /\ logging'.dispatch = logging.dispatch
          /\ logging'.filter = logging.filter

\* C29: set_log_level returns the error "logging not yet initialized"
\* exactly while no logging initialization has succeeded; the reload handle
\* is stored at most once, after a successful try_init, so that a later
\* init_default_logging or init_logging_with_file call, whose try_init
\* fails, never replaces it, and set_log_level keeps acting on the filter of
\* the first subscriber
C29_HandleStoredOnce ==
    /\ [](SetLogLevelAnswers)
    /\ [](HandleOfFirstSubscriber)
    /\ [][StoredOnce]_vars

\* the first initialisation installed its subscriber and stored its
\* handle, two later ones failed in try_init, and set_log_level("DEBUG")
\* has just set the filter of the first subscriber
C29_Witness ==
    /\ ret = [op |-> "set_log_level", level |-> "DEBUG", val |-> [ok |-> TRUE]]
    /\ logging.calls = 3
    /\ logging.dispatch = Some(1)
    /\ logging.SET_LOG_LEVEL = Some(1)
    /\ logging.filter = Some("DEBUG")

=============================================================================
